---- MODULE Spec2Model ----
(***************************************************************************)
(* The schema-to-field compiler of the siembol config editor               *)
(* (FormlyJsonschema, second half of textarea.type.component.ts).          *)
(*                                                                         *)
(* Spec         the union selector: the hideExpression closures built by   *)
(*              resolveMultiSchema, evaluated by the renderer in any order *)
(*              while the live model and the controls change.              *)
(* SpecResolve  resolveSchema / resolveDefinition / resolveAllOf applied   *)
(*              to schemas drawn from a bounded family.                    *)
(* SpecCompile  toFieldConfig applied to schema trees, and the fieldArray  *)
(*              getters of the array fields it returns, read afterwards by *)
(*              the renderer.                                              *)
(***************************************************************************)
EXTENDS Integers, Sequences, FiniteSets, TLC

VARIABLES
  mode,           \* 'oneOf' | 'anyOf', the first argument of resolveMultiSchema
  branches,       \* the compiled branch fields, f.parent.fieldGroup
  initialModel,   \* field.options['_initialModel']
  invalid,        \* the keyed leaves whose formControl.valid is false
  spread,         \* how the build compiles an array spread: "iterate" | "concat"
  selectControl,  \* selectField.formControl
  lastEval,       \* the last evaluation of a hideExpression and its outcome
  inits,          \* how often a hideExpression has built the selector's control
  rootSchema,     \* options.schema, the root document
  schema,         \* the schema handed to resolveSchema
  resolved,       \* what resolveSchema returned or threw
  field,          \* what toFieldConfig returned or threw
  fieldArray,     \* what the last read of a fieldArray getter returned or threw
  evaluated,      \* the validator or expression the renderer ran last, and its result
  store,          \* ConfigStoreService.store.getValue()
  pullRequestInfo, \* ConfigStoreService.pullRequestInfo.getValue()
  requests,       \* the requests of configLoaderService that have no answer yet
  outcome,        \* the last call or answer, and what the call returned or threw
  pc              \* "union" | "resolve" | "done" | "compile" | "compiled" | "store"

vars == <<mode, branches, initialModel, invalid, spread, selectControl, lastEval,
          inits, rootSchema, schema, resolved, field, fieldArray, evaluated,
          store, pullRequestInfo, requests, outcome, pc>>

unionVars == <<mode, branches, initialModel, invalid, spread, selectControl,
               lastEval, inits>>

resolveVars == <<rootSchema, schema, resolved, field, fieldArray, evaluated>>

storeVars == <<store, pullRequestInfo, requests, outcome>>

(***************************************************************************)
(* Bounds of the model.                                                    *)
(***************************************************************************)
MaxBranches == 2

(***************************************************************************)
(* JavaScript values. A result that may be a thrown TypeError, undefined   *)
(* or an array is a tagged record.                                         *)
(***************************************************************************)
TypeError == [t |-> "TypeError"]

JSUndefined == [t |-> "undefined"]

JSArray(s) == [t |-> "array", v |-> s]

Ok(v) == [t |-> "ok", v |-> v]

Throws(r) == r.t = "TypeError"

\* !field.key holds for a field that was given no key
NoKey == ""

ModelKeys == {"x", "y"}

\* the values a key of the model holds: undefined, or some defined value
ModelValues == {"undefined", "v"}

\* Object.keys(schema.properties) of the branch schemas
BranchKeySets == {{}, {"x"}, {"x", "y"}}

\* A compiled branch: an object field with a fieldGroup of keyed leaves, or a
\* field of another kind, which has no fieldGroup. No branch has a key.
BranchFields ==
  {[hasFieldGroup |-> FALSE, keys |-> {}]}
    \cup {[hasFieldGroup |-> TRUE, keys |-> K] : K \in BranchKeySets}

\* the keys of the fields above a leaf of a branch: the branch, the branches
\* group, the union, the object that holds the union
AncestorKeys == <<NoKey, NoKey, NoKey, NoKey>>

NumBranches == Len(branches)

\* branch indices are those of the source, from 0
BranchIndices == 0 .. (NumBranches - 1)

Branch(i) == branches[i + 1]

Leaves == {<<i, k>> \in BranchIndices \X ModelKeys : k \in Branch(i).keys}

NoControl == [exists |-> FALSE, isArray |-> FALSE, items |-> <<>>]

\* new FormControl(value): an array value, or a single value as a one-element
\* items (none for null)
FormControl(isArray, items) == [exists |-> TRUE, isArray |-> isArray, items |-> items]

NoEval == [i |-> -1, outcome |-> "none", ranked |-> FALSE]

(***************************************************************************)
(* getKeyPath, lines 189-206. The function ends after storing             *)
(* field._keyPath: a field with a key gets no return value.                *)
(***************************************************************************)
getKeyPath(key) ==
  IF key = NoKey THEN JSArray(<<>>) ELSE JSUndefined

(***************************************************************************)
(* [...a, ...b], line 176. Iterating undefined throws; a build that        *)
(* compiles the spread to a.concat(b) throws on an undefined a and appends *)
(* an undefined b as an element.                                           *)
(***************************************************************************)
SpreadBoth(a, b) ==
  IF spread = "iterate"
    THEN IF a.t = "array" /\ b.t = "array" THEN JSArray(a.v \o b.v) ELSE TypeError
    ELSE IF a.t # "array" THEN TypeError
         ELSE IF b.t = "array" THEN JSArray(a.v \o b.v)
         ELSE JSArray(Append(a.v, "undefined"))

RECURSIVE ClimbParents(_, _)
\* the while loop of lines 174-177
ClimbParents(paths, ancestors) ==
  IF ancestors = <<>> \/ Throws(paths) THEN paths
  ELSE ClimbParents(SpreadBoth(getKeyPath(Head(ancestors)), paths), Tail(ancestors))

\* value[path] on the model object, on a leaf value
Property(value, path) ==
  IF value = "object" /\ path \in ModelKeys THEN initialModel[path] ELSE "undefined"

RECURSIVE WalkPaths(_, _)
\* the for loop of lines 179-186
WalkPaths(value, paths) ==
  IF paths = <<>> THEN value
  ELSE IF value = "undefined" THEN "undefined"
  ELSE WalkPaths(Property(value, Head(paths)), Tail(paths))

\* getFieldInitialValue of the leaf with this key, lines 171-187
getFieldInitialValue(key) ==
  LET paths == ClimbParents(getKeyPath(key), AncestorKeys)
  IN  IF paths.t # "array" THEN TypeError ELSE Ok(WalkPaths("object", paths.v))

\* totalMatchedFields of a leaf, lines 217-219
LeafMatched(key) ==
  LET value == getFieldInitialValue(key)
  IN  IF Throws(value) THEN TypeError
      ELSE Ok(IF value.v # "undefined" THEN 1 ELSE 0)

\* totalMatchedFields of branch i, lines 216-221: a branch has no key, so the
\* fieldGroup is reduced, which throws when there is none
totalMatchedFields(i) ==
  IF ~Branch(i).hasFieldGroup THEN TypeError
  ELSE IF \E k \in Branch(i).keys : Throws(LeafMatched(k)) THEN TypeError
  ELSE Ok(Cardinality({k \in Branch(i).keys : LeafMatched(k).v = 1}))

\* isFieldValid of branch i, lines 223-229
isFieldValid(i) ==
  IF ~Branch(i).hasFieldGroup THEN TypeError
  ELSE Ok(\A k \in Branch(i).keys : <<i, k>> \notin invalid)

(***************************************************************************)
(* The ranking of lines 580-593.                                           *)
(***************************************************************************)
\* the sort comparator, lines 583-591, on branches whose counts are known
Comparator(i1, i2) ==
  LET matchedFields1 == totalMatchedFields(i1).v
      matchedFields2 == totalMatchedFields(i2).v
  IN  IF matchedFields1 = matchedFields2 THEN 0
      ELSE IF matchedFields2 > matchedFields1 THEN 1 ELSE -1

RECURSIVE InsertSorted(_, _)
InsertSorted(s, x) ==
  IF s = <<>> THEN <<x>>
  ELSE IF Comparator(Head(s), x) <= 0 THEN <<Head(s)>> \o InsertSorted(Tail(s), x)
  ELSE <<x>> \o s

RECURSIVE SortStable(_)
\* Array.prototype.sort, stable
SortStable(s) ==
  IF s = <<>> THEN <<>>
  ELSE InsertSorted(SortStable(SubSeq(s, 1, Len(s) - 1)), s[Len(s)])

RECURSIVE FilterValid(_)
\* .filter(([f]) => isFieldValid(f)) over the branches from index i on
FilterValid(i) ==
  IF i >= NumBranches THEN <<>>
  ELSE (IF isFieldValid(i).v THEN <<i>> ELSE <<>>) \o FilterValid(i + 1)

\* value of line 580: the valid branches, most matched fields first. The
\* comparator runs on every element of a list of two or more.
Ranking ==
  IF \E i \in BranchIndices : Throws(isFieldValid(i)) THEN TypeError
  ELSE LET candidates == FilterValid(0)
       IN  IF Len(candidates) >= 2
                /\ \E n \in 1 .. Len(candidates) : Throws(totalMatchedFields(candidates[n]))
             THEN TypeError
             ELSE Ok(SortStable(candidates))

\* line 595 without branch 0 as the default: the last branch instead
normalizedValueLast(value) ==
  <<IF Len(value) = 0 THEN NumBranches - 1 ELSE value[1]>>

\* line 595
normalizedValue(value) ==
  <<IF Len(value) = 0 THEN 0 ELSE value[1]>>

\* lines 596-597: an array for anyOf, its only element for oneOf
formattedControl(value) ==
  FormControl(mode = "anyOf", normalizedValue(value))

\* control.value.indexOf(i)
IndexOf(items, i) ==
  IF \E n \in 1 .. Len(items) : items[n] = i
    THEN (CHOOSE n \in 1 .. Len(items) :
            items[n] = i /\ \A m \in 1 .. (n - 1) : items[m] # i) - 1
    ELSE -1

\* lines 602-604 without the array case
HiddenScalarOnly(control, i) ==
  control.items # <<i>>

\* the return of lines 602-604
Hidden(control, i) ==
  IF control.isArray THEN IndexOf(control.items, i) = -1
  ELSE control.items # <<i>>

(***************************************************************************)
(* The union selector.                                                     *)
(***************************************************************************)
\* the hideExpression of branch i, lines 577-605
hideExpression(i) ==
  /\ pc = "union"
  /\ LET gateOpen == ~selectControl.exists
         value == Ranking
         failed == gateOpen /\ Throws(value)
         control == IF gateOpen /\ ~failed THEN formattedControl(value.v)
                    ELSE selectControl
     IN  /\ selectControl' = control
         /\ inits' = IF gateOpen /\ ~failed THEN inits + 1 ELSE inits
         /\ lastEval' = [i |-> i,
                         outcome |-> IF failed THEN "TypeError"
                                     ELSE IF Hidden(control, i) THEN "hidden"
                                     ELSE "visible",
                         ranked |-> gateOpen]
  /\ UNCHANGED <<mode, branches, initialModel, invalid, spread, pc>>
  /\ UNCHANGED resolveVars
  /\ UNCHANGED storeVars

\* the model the ranking reads is replaced at one key
ModelChange(k, v) ==
  /\ pc = "union"
  /\ initialModel[k] # v
  /\ initialModel' = [initialModel EXCEPT ![k] = v]
  /\ UNCHANGED <<mode, branches, invalid, spread, selectControl, lastEval, inits, pc>>
  /\ UNCHANGED resolveVars
  /\ UNCHANGED storeVars

\* the control of a leaf turns valid or invalid as the live model changes
StatusChange(leaf) ==
  /\ pc = "union"
  /\ invalid' = IF leaf \in invalid THEN invalid \ {leaf} ELSE invalid \cup {leaf}
  /\ UNCHANGED <<mode, branches, initialModel, spread, selectControl, lastEval, inits, pc>>
  /\ UNCHANGED resolveVars
  /\ UNCHANGED storeVars

RECURSIVE Ascending(_, _)
\* the members of S from index i on, in option order
Ascending(S, i) ==
  IF i >= NumBranches THEN <<>>
  ELSE (IF i \in S THEN <<i>> ELSE <<>>) \o Ascending(S, i + 1)

\* what the user can pick in the selector: any set of options when it is
\* multiple, one option or none otherwise
SelectorValues ==
  IF mode = "anyOf"
    THEN {FormControl(TRUE, Ascending(S, 0)) : S \in SUBSET BranchIndices}
    ELSE {FormControl(FALSE, <<i>>) : i \in BranchIndices}
           \cup {FormControl(FALSE, <<>>)}

\* the user changes the selection of an existing selector control
SelectorChange(control) ==
  /\ pc = "union"
  /\ selectControl.exists
  /\ control # selectControl
  /\ selectControl' = control
  /\ UNCHANGED <<mode, branches, initialModel, invalid, spread, lastEval, inits, pc>>
  /\ UNCHANGED resolveVars
  /\ UNCHANGED storeVars

RECURSIVE SeqsOf(_, _)
\* the sequences over S of length n
SeqsOf(S, n) ==
  IF n = 0 THEN {<<>>}
  ELSE {Append(s, x) : s \in SeqsOf(S, n - 1), x \in S}

\* resolveMultiSchema, lines 557-610: the union as built, no selector control
Init ==
  /\ pc = "union"
  /\ mode \in {"oneOf", "anyOf"}
  /\ spread \in {"iterate", "concat"}
  /\ \E n \in 2 .. MaxBranches : branches \in SeqsOf(BranchFields, n)
  /\ initialModel \in [ModelKeys -> ModelValues]
  /\ invalid \in SUBSET Leaves
  /\ selectControl = NoControl
  /\ lastEval = NoEval
  /\ inits = 0
  /\ rootSchema = <<>>
  /\ schema = <<>>
  /\ resolved = <<>>
  /\ field = <<>>
  /\ fieldArray = <<>>
  /\ evaluated = <<>>
  /\ store = <<>>
  /\ pullRequestInfo = <<>>
  /\ requests = <<>>
  /\ outcome = <<>>

Next ==
  \/ \E i \in BranchIndices : hideExpression(i)
  \/ \E k \in ModelKeys, v \in ModelValues : ModelChange(k, v)
  \/ \E leaf \in Leaves : StatusChange(leaf)
  \/ \E control \in SelectorValues : SelectorChange(control)

Spec == Init /\ [][Next]_vars

(***************************************************************************)
(* The union selector: what the claims say.                                *)
(***************************************************************************)
\* the keyed leaves of branch i that hold a defined value in the model at
\* their key and whose control is valid
MatchCount(i) ==
  Cardinality({k \in Branch(i).keys :
                 initialModel[k] # "undefined" /\ <<i, k>> \notin invalid})

TopRanked(i) == \A j \in BranchIndices : MatchCount(j) <= MatchCount(i)

\* every branch was checked for validity and none passed
NoBranchMatches ==
  \A j \in BranchIndices :
    Branch(j).hasFieldGroup /\ \E k \in Branch(j).keys : <<j, k>> \in invalid

Present(i, control) == \E n \in 1 .. Len(control.items) : control.items[n] = i

\* C1: the selector's initial value is computed at most once: an evaluation
\* ranks only while the selector has no control, the first evaluation of any
\* branch's predicate initializes it, and every later evaluation leaves the
\* control and its value as they are.
C1_MemoizedOnce ==
  [][\A i \in BranchIndices :
       hideExpression(i) =>
         /\ inits' <= 1
         /\ lastEval'.ranked = ~selectControl.exists
         /\ ~selectControl.exists => selectControl'.exists
         /\ selectControl.exists => selectControl' = selectControl]_vars

\* C2: on first evaluation the branch with the highest count of matched valid
\* leaves becomes the selector's initial value.
C2_HighestCountWins ==
  [][\A i \in BranchIndices :
       (hideExpression(i) /\ ~selectControl.exists) =>
         /\ selectControl'.exists
         /\ Len(selectControl'.items) = 1
         /\ TopRanked(selectControl'.items[1])]_vars

\* C3: when two or more branches share the highest match count, the selector's
\* initial value is the lowest branch index among them.
C3_TieLowestIndex ==
  [][\A i \in BranchIndices :
       (/\ hideExpression(i)
        /\ ~selectControl.exists
        /\ Cardinality({j \in BranchIndices : TopRanked(j)}) >= 2) =>
         /\ selectControl'.exists
         /\ Len(selectControl'.items) = 1
         /\ TopRanked(selectControl'.items[1])
         /\ \A j \in BranchIndices :
              TopRanked(j) => selectControl'.items[1] <= j]_vars

C5_VisibleIffSelected ==
  [][\A i \in BranchIndices :
       (hideExpression(i) /\ selectControl'.exists) =>
         /\ selectControl'.isArray = (mode = "anyOf")
         /\ lastEval'.outcome = "visible" <=> Present(i, selectControl')
         /\ lastEval'.outcome = "hidden" <=> ~Present(i, selectControl')]_vars

\* C5 happened: with two branches selected by the user in an anyOf union, an
\* evaluation of branch 1 found it visible
C5_Witness ==
  /\ selectControl.exists
  /\ mode = "anyOf"
  /\ Len(selectControl.items) = 2
  /\ lastEval.outcome = "visible"
  /\ lastEval.i = 1
  /\ ~lastEval.ranked

(***************************************************************************)
(* Schemas. A JSON object is a function from its own keys to their values; *)
(* a string that the code takes apart ($ref) is a sequence of characters.  *)
(***************************************************************************)
MaxMembers == 3

EmptyObject == [k \in {} |-> 0]

\* obj.hasOwnProperty(key)
has(obj, key) == key \in DOMAIN obj

\* { ...a, ...b }
SpreadObjects(a, b) ==
  [k \in DOMAIN a \cup DOMAIN b |-> IF k \in DOMAIN b THEN b[k] ELSE a[k]]

\* obj[key] = value
Assign(obj, key, value) == SpreadObjects(obj, key :> value)

\* the rest of a destructuring: { [key]: _, ...rest }
Without(obj, key) == [k \in DOMAIN obj \ {key} |-> obj[k]]

\* throw Error(message)
Error(message) == [error |-> message]

IsError(r) == has(r, "error")

EmptyAllOfError == Error("allOf array can not be empty")

RemoteError == Error("Remote schemas not supported yet")

CannotFindError == Error("Cannot find a definition")

\* a $ref cycle recurses until the call stack is exhausted
RangeError == Error("Maximum call stack size exceeded")

Null == [t |-> "null"]

\* the keys of lines 538 and 546
MaxProps == {"maxLength", "maximum", "exclusiveMaximum", "maxItems", "maxProperties"}

MinProps == {"minLength", "minimum", "exclusiveMinimum", "minItems", "minProperties"}

\* the keys whose values are strings, objects of schemas, arrays
StringKeys == {"title", "description", "default", "type"}

ObjectKeys == {"properties"}

\* isEmpty(obj[prop]), lines 208-210, for a numeric keyword: no number is ''
\* or null, so the value is empty when the key is absent
isEmpty(obj, prop) == ~has(obj, prop)

\* "#/definitions/<name>", the definitions being under the one-letter key d
PointerTo(name) == <<"#", "/", "d", "/", name>>

\* options.schema
RootDocument ==
  [title |-> "root",
   d |-> [a |-> [title |-> "A", description |-> "about a", minimum |-> 1],
          b |-> ("$ref" :> PointerTo("a")) @@ [title |-> "B"],
          c |-> ("$ref" :> PointerTo("b")) @@ [default |-> "of c"],
          e |-> [allOf |-> <<>>],
          f |-> ("$ref" :> PointerTo("m")) @@ EmptyObject,
          g |-> ("$ref" :> PointerTo("g")) @@ EmptyObject,
          h |-> [title |-> "H", maximum |-> 9, allOf |-> <<[minimum |-> 7]>>]]]

\* the definitions a chain of $ref can pass through
DefinitionCount == Cardinality(DOMAIN rootSchema.d)

(***************************************************************************)
(* String.prototype.split on a separator of one or more characters.        *)
(***************************************************************************)
FirstIndexOf(s, sep) ==
  LET hits == {n \in 1 .. (Len(s) - Len(sep) + 1) : SubSeq(s, n, n + Len(sep) - 1) = sep}
  IN  IF hits = {} THEN 0 ELSE CHOOSE n \in hits : \A m \in hits : n <= m

RECURSIVE Split(_, _)
Split(s, sep) ==
  LET n == FirstIndexOf(s, sep)
  IN  IF n = 0 THEN <<s>>
      ELSE <<SubSeq(s, 1, n - 1)>> \o Split(SubSeq(s, n + Len(sep), Len(s)), sep)

(***************************************************************************)
(* reverseDeepMerge of @ngx-formly/core, imported at line 156 and used at  *)
(* line 553: a key of src is copied into dest only where dest holds        *)
(* nothing (undefined, null or a blank string); where both hold objects    *)
(* that are not arrays they are merged the same way; otherwise dest keeps  *)
(* its value.                                                              *)
(***************************************************************************)
RECURSIVE forwardDeepMerge(_, _)
\* a merge in which src wins instead
forwardDeepMerge(dest, src) ==
  [k \in DOMAIN dest \cup DOMAIN src |->
     IF ~has(src, k) THEN dest[k]
     ELSE IF ~has(dest, k) THEN src[k]
     ELSE IF k \in ObjectKeys
       THEN [p \in DOMAIN dest[k] \cup DOMAIN src[k] |->
               IF ~has(src[k], p) THEN dest[k][p]
               ELSE IF ~has(dest[k], p) THEN src[k][p]
               ELSE forwardDeepMerge(dest[k][p], src[k][p])]
     ELSE src[k]]

RECURSIVE reverseDeepMerge(_, _)
reverseDeepMerge(dest, src) ==
  [k \in DOMAIN dest \cup DOMAIN src |->
     IF ~has(src, k) THEN dest[k]
     ELSE IF ~has(dest, k) \/ (k \in StringKeys /\ dest[k] = "") THEN src[k]
     ELSE IF k \in ObjectKeys
       THEN [p \in DOMAIN dest[k] \cup DOMAIN src[k] |->
               IF ~has(src[k], p) THEN dest[k][p]
               ELSE IF ~has(dest[k], p) THEN src[k][p]
               ELSE reverseDeepMerge(dest[k][p], src[k][p])]
     ELSE dest[k]]

(***************************************************************************)
(* resolveDefinition, lines 612-641.                                       *)
(***************************************************************************)
RECURSIVE lookupLenient(_, _)
\* the reduce of lines 618-621 with an empty schema for a missing segment
lookupLenient(def, paths) ==
  IF paths = <<>> THEN def
  ELSE LET path == Head(paths)
       IN  lookupLenient(
             IF Len(path) = 1 /\ has(def.v, path[1])
               THEN Ok(def.v[path[1]]) ELSE Ok(EmptyObject),
             Tail(paths))

RECURSIVE lookupDefinition(_, _)
\* the reduce of lines 618-621: def && def.hasOwnProperty(path) ? def[path] : null
\* (every key of the documents that a pointer names is one character long)
lookupDefinition(def, paths) ==
  IF paths = <<>> THEN def
  ELSE LET path == Head(paths)
       IN  lookupDefinition(
             IF def.t = "ok" /\ Len(path) = 1 /\ has(def.v, path[1])
               THEN Ok(def.v[path[1]]) ELSE Null,
             Tail(paths))

\* the annotations of lines 633-639
Annotations(sch) ==
  [p \in {"title", "description", "default"} \cap DOMAIN sch |-> sch[p]]

\* schema.$ref is set and not ''
hasRef(sch) == has(sch, "$ref") /\ sch["$ref"] # <<>>

RECURSIVE resolveDefinition(_, _)
\* depth counts the nested calls of line 628
resolveDefinition(sch, depth) ==
  LET parts == Split(sch["$ref"], <<"#", "/">>)
      uri == parts[1]
      \* undefined when the separator does not occur: as falsy as ''
      pointer == IF Len(parts) >= 2 THEN parts[2] ELSE <<>>
      definition == IF pointer = <<>> THEN Null
                    ELSE lookupDefinition(Ok(rootSchema), Split(pointer, <<"/">>))
  IN  IF uri # <<>> THEN RemoteError
      ELSE IF definition.t # "ok" THEN CannotFindError
      ELSE IF hasRef(definition.v)
        THEN IF depth >= DefinitionCount THEN RangeError
             ELSE resolveDefinition(definition.v, depth + 1)
      ELSE SpreadObjects(definition.v, Annotations(sch))

(***************************************************************************)
(* resolveSchema and resolveAllOf, lines 510-555.                          *)
(***************************************************************************)
\* lines 546-551 with the comparison of lines 538-543
tightenMinAsMax(base, sch) ==
  [k \in DOMAIN base |->
     IF k \in MinProps /\ ~isEmpty(base, k) /\ ~isEmpty(sch, k)
       THEN IF base[k] < sch[k] THEN base[k] ELSE sch[k]
       ELSE base[k]]

\* lines 537-543: resolve to min value
tightenMax(base, sch) ==
  [k \in DOMAIN base |->
     IF k \in MaxProps /\ ~isEmpty(base, k) /\ ~isEmpty(sch, k)
       THEN IF base[k] < sch[k] THEN base[k] ELSE sch[k]
       ELSE base[k]]

\* lines 545-551: resolve to max value
tightenMin(base, sch) ==
  [k \in DOMAIN base |->
     IF k \in MinProps /\ ~isEmpty(base, k) /\ ~isEmpty(sch, k)
       THEN IF base[k] > sch[k] THEN base[k] ELSE sch[k]
       ELSE base[k]]

\* lines 529-531
concatRequired(base, sch) ==
  IF has(base, "required") /\ has(sch, "required")
    THEN Assign(base, "required", base.required \o sch.required)
    ELSE base

\* lines 533-535
takeUniqueItems(base, sch) ==
  IF has(sch, "uniqueItems") /\ sch.uniqueItems
    THEN Assign(base, "uniqueItems", sch.uniqueItems)
    ELSE base

\* the reducer of lines 527-554 once the member is resolved
mergeMember(base, sch) ==
  reverseDeepMerge(
    tightenMin(tightenMax(takeUniqueItems(concatRequired(base, sch), sch), sch), sch),
    sch)

RECURSIVE resolveSchema(_)
RECURSIVE reduceAllOf(_, _)
RECURSIVE resolveAllOf(_)

\* allOf.reduce(..., baseSchema), lines 527-554: a member that fails to
\* resolve ends the reduction with its error
reduceAllOf(base, allOf) ==
  IF allOf = <<>> THEN base
  ELSE LET sch == resolveSchema(Head(allOf))
       IN  IF IsError(sch) THEN sch
           ELSE reduceAllOf(mergeMember(base, sch), Tail(allOf))

\* lines 522-555 without the check of lines 523-525
resolveAllOfUnchecked(sch) ==
  reduceAllOf(Without(sch, "allOf"), sch.allOf)

\* lines 522-555
resolveAllOf(sch) ==
  IF Len(sch.allOf) = 0 THEN EmptyAllOfError
  ELSE reduceAllOf(Without(sch, "allOf"), sch.allOf)

\* lines 510-520; an array, also an empty one, is truthy
resolveSchema(sch) ==
  LET target == IF hasRef(sch) THEN resolveDefinition(sch, 0) ELSE sch
  IN  IF IsError(target) THEN target
      ELSE IF has(target, "allOf") THEN resolveAllOf(target)
      ELSE target

(***************************************************************************)
(* The schemas resolved.                                                   *)
(***************************************************************************)
\* the members of an allOf
Members ==
  {[minimum |-> 0],
   [minimum |-> 5, minLength |-> 2, title |-> "A"],
   [maximum |-> 3, title |-> "B", description |-> "m"],
   [title |-> "", uniqueItems |-> TRUE],
   [required |-> <<"x">>, properties |-> [x |-> [type |-> "number", title |-> "X"]]],
   ("$ref" :> PointerTo("a")) @@ [title |-> "R"],
   ("$ref" :> PointerTo("m")) @@ EmptyObject,
   [allOf |-> <<>>],
   [allOf |-> <<[minimum |-> 7], [title |-> "N"]>>, maximum |-> 6]}

\* the schemas that enclose an allOf
Bases ==
  {EmptyObject,
   [title |-> "T"],
   [minimum |-> 3, minLength |-> 4, uniqueItems |-> FALSE],
   [maximum |-> 5, required |-> <<"y">>, title |-> ""],
   [properties |-> [x |-> [type |-> "string"]], description |-> "base"]}

Refs ==
  {PointerTo(n) : n \in {"a", "b", "c", "e", "f", "g", "h", "m"}}
    \cup {<<"#", "/", "m", "/", "a">>,
          <<"#", "/", "d", "/", "a", "/", "m">>,
          <<"#", "/", "d", "/", "/", "a">>,
          <<"h", "#", "/", "d", "/", "a">>,
          <<"h">>,
          <<"#">>,
          <<"#", "/">>,
          <<"#", "/", "d">>}

\* title, description and default beside a $ref
AnnotationSets ==
  {[p \in P |-> CASE p = "title" -> "Mine"
                  [] p = "description" -> "my words"
                  [] OTHER -> "my default"] :
     P \in SUBSET {"title", "description", "default"}}

InputSchemas ==
  Bases
    \cup {Assign(base, "allOf", allOf) :
            base \in Bases, allOf \in UNION {SeqsOf(Members, n) : n \in 0 .. MaxMembers}}
    \cup {SpreadObjects("$ref" :> ref, annotation) :
            ref \in Refs, annotation \in AnnotationSets}
    \cup {SpreadObjects("$ref" :> ref, [allOf |-> <<>>]) :
            ref \in {PointerTo("a"), PointerTo("h"), PointerTo("m")}}

NotResolved == [pending |-> TRUE]

\* the renderer has run nothing yet
NotEvaluated == [kind |-> "none"]

\* _toFieldConfig, line 249: schema = this.resolveSchema(schema, options)
Resolve ==
  /\ pc = "resolve"
  /\ resolved' = resolveSchema(schema)
  /\ pc' = "done"
  /\ UNCHANGED <<rootSchema, schema, field, fieldArray, evaluated>>
  /\ UNCHANGED unionVars
  /\ UNCHANGED storeVars

InitResolve ==
  /\ pc = "resolve"
  /\ rootSchema = RootDocument
  /\ schema \in InputSchemas
  /\ resolved = NotResolved
  /\ field = NotResolved
  /\ fieldArray = NotResolved
  /\ evaluated = NotEvaluated
  /\ store = <<>>
  /\ pullRequestInfo = <<>>
  /\ requests = <<>>
  /\ outcome = <<>>
  /\ mode = "oneOf"
  /\ branches = <<>>
  /\ initialModel = [k \in ModelKeys |-> "undefined"]
  /\ invalid = {}
  /\ spread = "iterate"
  /\ selectControl = NoControl
  /\ lastEval = NoEval
  /\ inits = 0

NextResolve == Resolve

SpecResolve == InitResolve /\ [][NextResolve]_vars

(***************************************************************************)
(* The resolver: what the claims say.                                      *)
(***************************************************************************)
\* a schema with a non-empty allOf and no $ref was resolved
Folded ==
  /\ pc = "done"
  /\ ~has(schema, "$ref")
  /\ has(schema, "allOf")
  /\ schema.allOf # <<>>

\* the enclosing schema followed by the members, each resolved on its own
Parts ==
  <<Without(schema, "allOf")>>
    \o [n \in 1 .. Len(schema.allOf) |-> resolveSchema(schema.allOf[n])]

\* the values that the enclosing schema and the members declare for a key,
\* in the order of declaration
RECURSIVE DeclaredFrom(_, _)
DeclaredFrom(parts, key) ==
  IF parts = <<>> THEN <<>>
  ELSE (IF has(Head(parts), key) THEN <<Head(parts)[key]>> ELSE <<>>)
         \o DeclaredFrom(Tail(parts), key)

Declared(key) == DeclaredFrom(Parts, key)

Range(s) == {s[n] : n \in DOMAIN s}

Greatest(S) == CHOOSE x \in S : \A y \in S : y <= x

Least(S) == CHOOSE x \in S : \A y \in S : x <= y

\* every order of the members of a list
Orders(s) ==
  {[n \in 1 .. Len(s) |-> s[f[n]]] :
     f \in {g \in [1 .. Len(s) -> 1 .. Len(s)] : \A a, b \in 1 .. Len(s) : g[a] = g[b] => a = b}}

\* the bounds of a resolved schema are the tightest of those declared
Tightest(r) ==
  /\ \A p \in MinProps :
       IF Declared(p) = <<>> THEN ~has(r, p)
       ELSE has(r, p) /\ r[p] = Greatest(Range(Declared(p)))
  /\ \A p \in MaxProps :
       IF Declared(p) = <<>> THEN ~has(r, p)
       ELSE has(r, p) /\ r[p] = Least(Range(Declared(p)))

\* C6: folding an allOf leaves, for each minimum-type bound, the greatest of
\* the values declared by the enclosing schema and the members, and for each
\* maximum-type bound the least of them, whatever the order of the members;
\* a bound that some member declares is in the result also when later members
\* lack it (a fold in which a member fails to resolve fails in every order)
C6_TightestBound ==
  Folded =>
    \A allOf \in Orders(schema.allOf) :
      LET r == resolveSchema(Assign(schema, "allOf", allOf))
      IN  /\ IsError(r) <=> IsError(resolved)
          /\ ~IsError(r) => Tightest(r)

\* C6 happened: of three members the first declares a minimum, the second a
\* lower one and the third none, and the result carries the first one's
C6_Witness ==
  /\ Folded
  /\ Len(schema.allOf) = 3
  /\ has(schema.allOf[1], "minimum")
  /\ has(schema.allOf[2], "minimum")
  /\ ~has(schema.allOf[3], "minimum")
  /\ ~has(schema.allOf[3], "$ref")
  /\ ~has(schema.allOf[3], "allOf")
  /\ schema.allOf[2].minimum < schema.allOf[1].minimum
  /\ ~has(schema, "minimum")
  /\ ~IsError(resolved)
  /\ resolved.minimum = schema.allOf[1].minimum

\* the first value of a list that is not the blank string, the blank string
\* if there is none
RECURSIVE FirstNonBlank(_)
FirstNonBlank(values) ==
  IF Len(values) = 1 \/ Head(values) # "" THEN Head(values)
  ELSE FirstNonBlank(Tail(values))

\* two of the schemas folded declare different values for the key
Conflict(key) ==
  \E a, b \in DOMAIN Declared(key) : Declared(key)[a] # Declared(key)[b]

DeclaredProperties ==
  UNION {DOMAIN Declared("properties")[n] : n \in DOMAIN Declared("properties")}

\* what they declare for a key of a property, in the order of declaration
RECURSIVE DeclaredInside(_, _, _)
DeclaredInside(objects, name, key) ==
  IF objects = <<>> THEN <<>>
  ELSE (IF has(Head(objects), name) /\ has(Head(objects)[name], key)
          THEN <<Head(objects)[name][key]>> ELSE <<>>)
         \o DeclaredInside(Tail(objects), name, key)

RemoteRefs == {<<"h", "#", "/", "d", "/", "a">>, <<"h">>}

\* same-document references with a segment that the document does not have
MissingRefs ==
  {PointerTo("m"),
   <<"#", "/", "m", "/", "a">>,
   <<"#", "/", "d", "/", "a", "/", "m">>,
   <<"#", "/", "d", "/", "/", "a">>}

\* references without a pointer, to a definition whose own reference is
\* missing, and to a definition that refers to itself
BrokenRefs == {<<"#">>, <<"#", "/">>, PointerTo("f"), PointerTo("g")}

\* C9: resolving a $ref with a part before the fragment separator fails with
\* the error for remote schemas, resolving a same-document $ref whose pointer
\* has a segment missing from the document fails with the error for
\* unresolved references, and so does an allOf with such a member; no schema
\* comes out of a reference that leads nowhere
C9_BadRefFails ==
  /\ (pc = "done" /\ hasRef(schema)) =>
       /\ schema["$ref"] \in RemoteRefs => resolved = RemoteError
       /\ schema["$ref"] \in MissingRefs => resolved = CannotFindError
       /\ schema["$ref"] \in BrokenRefs => IsError(resolved)
  /\ Folded =>
       ((\E n \in DOMAIN schema.allOf :
           hasRef(schema.allOf[n]) /\ schema.allOf[n]["$ref"] \in MissingRefs)
          => IsError(resolved))

\* C9 happened: a reference to a definition that the document does not have
\* was resolved, and the error for unresolved references came out
C9_Witness ==
  /\ pc = "done"
  /\ hasRef(schema)
  /\ schema["$ref"] = PointerTo("m")
  /\ has(schema, "title")
  /\ resolved = CannotFindError

\* C10 as stated: title, description and default set on the node that holds a
\* $ref are in the resolved schema with the values of that node
C10_AnnotationsOverride ==
  (pc = "done" /\ hasRef(schema) /\ ~IsError(resolved)) =>
    \A p \in DOMAIN Annotations(schema) :
      has(resolved, p) /\ resolved[p] = schema[p]

(***************************************************************************)
(* toFieldConfig, lines 242-508, for schemas whose type is one name or     *)
(* absent and that carry no widget; a field is the record of its type,     *)
(* templateOptions, validators, key, fieldGroup and expressions.           *)
(* this.testSpec, options.map and options.autoClear === false do not occur *)
(* after construction.                                                     *)
(***************************************************************************)
\* propKey[propKey.length - 1].replace(...) when propKey is empty
NoLastKeyError == Error("Cannot read property 'replace' of undefined")

\* schema.$ref when the schema is undefined
NoSchemaError == Error("Cannot read property '$ref' of undefined")

\* schema.items as one schema, and as an array of schemas
SingleItems(sch) == [kind |-> "single", schema |-> sch]

TupleItems(schemas) == [kind |-> "tuple", schemas |-> schemas]

\* a value of schema.dependencies: an array of property names, or a schema
PropertyDependency(names) == [kind |-> "properties", names |-> names]

SchemaDependency(sch) == [kind |-> "schema", schema |-> sch]

\* Object.keys lists the keys in the order of their insertion; the documents
\* compiled here are written with their property names in this order
KeyOrder == <<"l", "p", "q", "x", "first_name", "kind">>

Keys(obj) == SelectSeq(KeyOrder, LAMBDA k : k \in DOMAIN obj)

\* s.replace(/_/g, ' ') on the strings with an underscore that the schemas
\* compiled here hold as title or key; other strings have none
Underscored ==
  ("first_name" :> "first name") @@ ("my_title" :> "my title")

replaceUnderscores(s) == IF s \in DOMAIN Underscored THEN Underscored[s] ELSE s

\* TitleCasePipe.transform on the strings that the schemas compiled here hold
\* as title or key: the first letter of each word in upper case, the rest in
\* lower case; a falsy value is returned as it is
TitleCased ==
  ("first name" :> "First Name") @@ ("my title" :> "My Title")
    @@ ("root" :> "Root") @@ ("URL" :> "Url") @@ ("Mine" :> "Mine")
    @@ ("A" :> "A") @@ ("B" :> "B") @@ ("H" :> "H") @@ ("T" :> "T")
    @@ ("R" :> "R") @@ ("N" :> "N") @@ ("X" :> "X")
    @@ ("l" :> "L") @@ ("p" :> "P") @@ ("q" :> "Q") @@ ("x" :> "X")
    @@ ("kind" :> "Kind") @@ ("-" :> "-")

titleCase(s) == IF s = "" THEN "" ELSE TitleCased[s]

\* lines 667-684
guessType(sch) ==
  IF ~has(sch, "type") /\ has(sch, "properties") THEN "object"
  ELSE IF has(sch, "type") THEN sch.type
  ELSE "undefined"

\* the types whose label is made from the last element of propKey,
\* lines 272, 278, 315 and 400
LabelledTypes == {"boolean", "number", "integer", "string", "array"}

\* lines 212-214
isConst(sch) == has(sch, "const") \/ (has(sch, "enum") /\ Len(sch.enum) = 1)

RECURSIVE isEnum(_)
\* lines 691-696; an array, also an empty one, is truthy
isEnum(sch) ==
  \/ has(sch, "enum")
  \/ has(sch, "anyOf") /\ \A n \in DOMAIN sch.anyOf : isConst(sch.anyOf[n])
  \/ has(sch, "oneOf") /\ \A n \in DOMAIN sch.oneOf : isConst(sch.oneOf[n])
  \/ /\ has(sch, "uniqueItems") /\ sch.uniqueItems
     /\ has(sch, "items") /\ sch.items.kind = "single"
     /\ isEnum(sch.items.schema)

\* toEnum, lines 703-707
toEnum(sch) ==
  LET value == IF has(sch, "const") THEN sch.const ELSE sch.enum[1]
  IN  [value |-> value,
       label |-> IF has(sch, "title") /\ sch.title # "" THEN sch.title ELSE value]

RECURSIVE toEnumOptions(_)
\* lines 698-718
toEnumOptions(sch) ==
  IF has(sch, "enum")
    THEN [n \in DOMAIN sch.enum |-> [value |-> sch.enum[n], label |-> sch.enum[n]]]
  ELSE IF has(sch, "anyOf") THEN [n \in DOMAIN sch.anyOf |-> toEnum(sch.anyOf[n])]
  ELSE IF has(sch, "oneOf") THEN [n \in DOMAIN sch.oneOf |-> toEnum(sch.oneOf[n])]
  ELSE toEnumOptions(sch.items.schema)

\* lines 251-264: the field before the switch on its type
baseField(sch) ==
  LET templateOptions ==
        SpreadObjects(
          [label |-> IF has(sch, "title") /\ sch.title # ""
                       THEN titleCase(replaceUnderscores(sch.title)) ELSE ""],
          [p \in {"description"} \cap DOMAIN sch |-> sch[p]])
  IN  SpreadObjects(
        [type |-> guessType(sch), templateOptions |-> templateOptions,
         validators |-> EmptyObject, autoClear |-> TRUE],
        IF has(sch, "default") THEN [defaultValue |-> sch.default] ELSE EmptyObject)

\* field.templateOptions[name] = value
setOption(f, name, value) ==
  Assign(f, "templateOptions", Assign(f.templateOptions, name, value))

\* addValidator, lines 686-689; the validator keeps the value of the keyword
addValidator(f, name, keyword) ==
  Assign(f, "validators", Assign(f.validators, name, keyword))

\* if (schema.hasOwnProperty(prop)) field.templateOptions[option] = schema[prop],
\* lines 280-286, 310-314
copyOption(f, sch, prop, option) ==
  IF has(sch, prop) THEN setOption(f, option, sch[prop]) ELSE f

\* a keyword that comes with a validator of its name, lines 288-301, 402-423
validated(f, sch, prop, option) ==
  IF has(sch, prop)
    THEN addValidator(setOption(f, option, sch[prop]), prop, sch[prop])
    ELSE f

\* the label of lines 272, 278 and 400, propKey not being empty
keyLabel(propKey) == titleCase(replaceUnderscores(propKey[Len(propKey)]))

\* the cases of lines 267-319, propKey not being empty for the labelled types
scalarField(f, sch, propKey) ==
  IF f.type = "null" THEN addValidator(f, "null", "null")
  ELSE IF f.type = "boolean" THEN setOption(f, "label", keyLabel(propKey))
  ELSE IF f.type \in {"number", "integer"}
    THEN validated(
           validated(
             validated(
               copyOption(
                 copyOption(setOption(f, "label", keyLabel(propKey)),
                            sch, "minimum", "min"),
                 sch, "maximum", "max"),
               sch, "exclusiveMinimum", "exclusiveMinimum"),
             sch, "exclusiveMaximum", "exclusiveMaximum"),
           sch, "multipleOf", "step")
  ELSE IF f.type = "string"
    THEN setOption(
           copyOption(
             copyOption(copyOption(f, sch, "minLength", "minLength"),
                        sch, "maxLength", "maxLength"),
             sch, "pattern", "pattern"),
           "label",
           IF propKey[Len(propKey)] # "-" THEN keyLabel(propKey) ELSE "")
  ELSE f

\* a new Function that takes any text
NoneMalformed == {}

\* the texts that new Function refuses with a SyntaxError
Malformed == {"return (", "model.x ==="}

\* lines 469-492
schemaForm(f, sch) ==
  IF ~has(sch, "x-schema-form") THEN f
  ELSE
    LET xsf == sch["x-schema-form"]
        typed == IF has(xsf, "type") THEN Assign(f, "type", xsf.type) ELSE f
        wrapped == IF has(xsf, "wrappers") THEN Assign(typed, "wrappers", xsf.wrappers)
                   ELSE IF typed.type = "object" THEN Assign(typed, "wrappers", <<"panel">>)
                   ELSE typed
        hiding == IF /\ has(xsf, "condition")
                     /\ has(xsf.condition, "hideExpression")
                     /\ xsf.condition.hideExpression \notin Malformed
                    THEN Assign(wrapped, "hideExpression",
                                [kind |-> "dynFunc", source |-> xsf.condition.hideExpression])
                    ELSE wrapped
    IN  IF has(xsf, "condition") /\ has(xsf.condition, "disableAutoClear")
          THEN Assign(hiding, "autoClear", FALSE)
          ELSE hiding

\* lines 462-468
constField(f, sch) ==
  IF ~has(sch, "const") THEN f
  ELSE LET g == addValidator(setOption(f, "const", sch.const), "const", sch.const)
       IN  IF g.type = "undefined" THEN Assign(g, "defaultValue", sch.const) ELSE g

\* lines 494-498
enumField(f, sch) ==
  IF ~isEnum(sch) THEN f
  ELSE Assign(setOption(setOption(f, "multiple", f.type = "array"),
                        "options", toEnumOptions(sch)),
              "type", "enum")

\* lines 462-507, after the switch
finishField(f, sch) == enumField(schemaForm(constField(f, sch), sch), sch)

\* dependencies that are not inverted: the names that the dependency of key lists
propDepsForward(sch, key) ==
  IF /\ has(sch, "dependencies")
     /\ has(sch.dependencies, key)
     /\ sch.dependencies[key].kind = "properties"
    THEN sch.dependencies[key].names
    ELSE <<>>

\* resolveDependencies, lines 643-665: deps[key], the properties whose
\* dependency names key, in the order of Object.keys
propDeps(sch, key) ==
  IF ~has(sch, "dependencies") THEN <<>>
  ELSE SelectSeq(Keys(sch.dependencies),
                 LAMBDA prop : /\ sch.dependencies[prop].kind = "properties"
                               /\ \E n \in DOMAIN sch.dependencies[prop].names :
                                    sch.dependencies[prop].names[n] = key)

\* resolveDependencies, lines 643-665: whether schemaDeps[key] is set
hasSchemaDep(sch, key) ==
  /\ has(sch, "dependencies")
  /\ has(sch.dependencies, key)
  /\ sch.dependencies[key].kind = "schema"

\* getConstValue, lines 353-355
getConstValue(sch) == IF has(sch, "const") THEN sch.const ELSE sch.enum[1]

\* const value = ...: the value is computed once and then used by name
With(value, body(_)) == CHOOSE r \in {body(v) : v \in {value}} : TRUE

RECURSIVE toFieldConfigAt(_, _)
RECURSIVE compileProperties(_, _, _)
RECURSIVE compileBranches(_, _, _, _)
RECURSIVE compileAlternatives(_, _, _)

\* schemas.map((s, i) => ({ ...this._toFieldConfig(s, ..., propKey),
\* hideExpression })), lines 575-606, from index i on
compileBranches(unionMode, schemas, i, propKey) ==
  IF schemas = <<>> THEN Ok(<<>>)
  ELSE With(toFieldConfigAt(Head(schemas), propKey), LAMBDA f :
         IF IsError(f) THEN f
         ELSE With(compileBranches(unionMode, Tail(schemas), i + 1, propKey), LAMBDA rest :
                LET hiding == Assign(f, "hideExpression",
                                     [kind |-> "union", mode |-> unionMode, i |-> i])
                IN  IF IsError(rest) THEN rest ELSE Ok(<<hiding>> \o rest.v)))

\* lines 557-610
resolveMultiSchema(unionMode, schemas, propKey) ==
  With(compileBranches(unionMode, schemas, 0, propKey), LAMBDA fieldGroup :
    LET options == [n \in DOMAIN schemas |->
                      [label |-> IF has(schemas[n], "title") THEN schemas[n].title
                                 ELSE "undefined",
                       value |-> n - 1]]
    IN  IF IsError(fieldGroup) THEN fieldGroup
        ELSE [type |-> "union",
              fieldGroup |-> <<[type |-> "enum",
                                templateOptions |-> [multiple |-> unionMode = "anyOf",
                                                     options |-> options]],
                               [fieldGroup |-> fieldGroup.v]>>])

\* oneOfSchema.forEach, lines 362-368
compileAlternatives(oneOfSchema, key, newPropKey) ==
  IF oneOfSchema = <<>> THEN Ok(<<>>)
  ELSE LET item == Head(oneOfSchema)
       IN  With(toFieldConfigAt(
                  Assign(item, "properties", Without(item.properties, key)),
                  newPropKey), LAMBDA f :
             IF IsError(f) THEN f
             ELSE With(compileAlternatives(Tail(oneOfSchema), key, newPropKey), LAMBDA rest :
                    LET hiding == Assign(f, "hideExpression",
                                         [kind |-> "constDependency", key |-> key,
                                          const |-> getConstValue(item.properties[key])])
                    IN  IF IsError(rest) THEN rest ELSE Ok(<<hiding>> \o rest.v)))

\* lines 352-376: the fields pushed for schemaDeps[key]
dependencyFields(dep, key, newPropKey) ==
  IF /\ has(dep, "oneOf")
     /\ \A n \in DOMAIN dep.oneOf :
          /\ has(dep.oneOf[n], "properties")
          /\ has(dep.oneOf[n].properties, key)
          /\ isConst(dep.oneOf[n].properties[key])
    THEN compileAlternatives(dep.oneOf, key, newPropKey)
    ELSE With(toFieldConfigAt(dep, newPropKey), LAMBDA f :
           IF IsError(f) THEN f
           ELSE Ok(<<Assign(f, "hideExpression",
                            [kind |-> "dependency", key |-> key])>>))

\* a loop that gives every field the key of the first property
propertyFieldFirstKey(sch, key, f) == Assign(f, "key", Keys(sch.properties)[1])

\* lines 338-350: the field of a property
propertyField(sch, key, f) ==
  LET keyed == Assign(f, "key", key)
      required == /\ has(sch, "required")
                  /\ \E n \in DOMAIN sch.required : sch.required[n] = key
  IN  IF required THEN setOption(keyed, "required", TRUE)
      ELSE IF propDeps(sch, key) # <<>>
        THEN Assign(keyed, "expressionProperties",
                    [required |-> propDeps(sch, key)])
      ELSE keyed

\* the loop of lines 337-377 over the keys that are left
compileProperties(sch, keys, propKey) ==
  IF keys = <<>> THEN Ok(<<>>)
  ELSE LET key == Head(keys)
           newPropKey == Append(propKey, key)
       IN  With(toFieldConfigAt(sch.properties[key], newPropKey), LAMBDA f :
             IF IsError(f) THEN f
             ELSE With(IF ~hasSchemaDep(sch, key) THEN Ok(<<>>)
                       ELSE dependencyFields(sch.dependencies[key].schema, key, newPropKey),
                       LAMBDA deps :
                    IF IsError(deps) THEN deps
                    ELSE With(compileProperties(sch, Tail(keys), propKey), LAMBDA rest :
                           IF IsError(rest) THEN rest
                           ELSE Ok(<<propertyField(sch, key, f)>> \o deps.v \o rest.v))))

\* the case of lines 320-397
objectField(f, sch, propKey) ==
  IF ~has(sch, "properties") /\ ~has(sch, "oneOf")
    THEN SpreadObjects(f, [type |-> "rawobject", fieldGroup |-> <<>>])
  ELSE
    With(IF has(sch, "properties")
           THEN compileProperties(sch, Keys(sch.properties), propKey)
           ELSE Ok(<<>>), LAMBDA properties :
      IF IsError(properties) THEN properties
      ELSE With(IF has(sch, "oneOf")
                  THEN resolveMultiSchema("oneOf", sch.oneOf, propKey)
                  ELSE EmptyObject, LAMBDA oneOf :
             IF IsError(oneOf) THEN oneOf
             ELSE With(IF has(sch, "anyOf")
                         THEN resolveMultiSchema("anyOf", sch.anyOf, propKey)
                         ELSE EmptyObject, LAMBDA anyOf :
                    IF IsError(anyOf) THEN anyOf
                    ELSE Assign(f, "fieldGroup",
                                properties.v
                                  \o (IF has(sch, "oneOf") THEN <<oneOf>> ELSE <<>>)
                                  \o (IF has(sch, "anyOf") THEN <<anyOf>> ELSE <<>>)))))

\* line 427: schema.items = this.resolveSchema(schema.items, options)
resolveItems(sch) ==
  IF has(sch, "items") /\ sch.items.kind = "single"
    THEN With(resolveSchema(sch.items.schema), LAMBDA items :
           IF IsError(items) THEN items ELSE Assign(sch, "items", SingleItems(items)))
    ELSE sch

\* the case of lines 398-459, propKey not being empty and the items resolved;
\* the getter of lines 433-455 keeps schema and newPropKey2
arrayField(f, sch, propKey) ==
  LET labelled == Assign(setOption(f, "label", keyLabel(propKey)), "fieldGroup", <<>>)
      checked == validated(
                   validated(validated(labelled, sch, "minItems", "minItems"),
                             sch, "maxItems", "maxItems"),
                   sch, "uniqueItems", "uniqueItems")
  IN  IF isEnum(sch) THEN checked
      ELSE Assign(checked, "getter", [schema |-> sch, newPropKey2 |-> propKey])

\* _toFieldConfig, lines 248-508
toFieldConfigAt(sch, propKey) ==
  With(resolveSchema(sch), LAMBDA target :
    IF IsError(target) THEN target
    ELSE With(baseField(target), LAMBDA f :
      IF f.type \in LabelledTypes /\ propKey = <<>> THEN NoLastKeyError
      ELSE IF f.type = "object"
        THEN With(objectField(f, target, propKey), LAMBDA g :
               IF IsError(g) THEN g ELSE finishField(g, target))
      ELSE IF f.type = "array"
        THEN With(resolveItems(target), LAMBDA items :
               IF IsError(items) THEN items
               ELSE With(arrayField(f, items, propKey), LAMBDA g : finishField(g, items)))
      ELSE With(scalarField(f, target, propKey), LAMBDA g : finishField(g, target))))

\* lines 242-246
toFieldConfig(sch) == toFieldConfigAt(sch, <<>>)

\* the getter of lines 434-452, read when the array has no element yet
getFieldArray(f) ==
  LET sch == f.getter.schema
      newPropKey2 == IF f.getter.newPropKey2[Len(f.getter.newPropKey2)] # "-"
                       THEN Append(f.getter.newPropKey2, "-")
                       ELSE f.getter.newPropKey2
  IN  IF ~has(sch, "items") THEN NoSchemaError
      ELSE IF sch.items.kind = "single"
        THEN toFieldConfigAt(sch.items.schema, newPropKey2)
      ELSE IF sch.items.schemas # <<>>
        THEN toFieldConfigAt(sch.items.schemas[1], f.getter.newPropKey2)
      ELSE IF has(sch, "additionalItems")
        THEN toFieldConfigAt(sch.additionalItems, f.getter.newPropKey2)
      ELSE EmptyObject

(***************************************************************************)
(* The validators that addValidator attaches, run by the renderer on the   *)
(* value of the field's control.                                           *)
(***************************************************************************)
JSString(s) == [t |-> "string", s |-> s]

JSNumber(n) == [t |-> "number", n |-> n]

\* isEmpty(v), lines 208-210, for a value of a control
isNullOnly(v) == v.t = "null"

isEmptyValue(v) == v = JSString("") \/ v.t = "undefined" \/ v.t = "null"

\* the validator of a name, which keeps the value of its keyword:
\* lines 268, 290, 295, 300, 404, 408, 412-422, 464
runValidator(name, keyword, value) ==
  CASE name = "null" -> value.t = "null"
    [] name = "exclusiveMinimum" ->
         isEmptyValue(value) \/ (value.t = "number" /\ value.n > keyword)
    [] name = "exclusiveMaximum" ->
         isEmptyValue(value) \/ (value.t = "number" /\ value.n < keyword)
    [] name = "multipleOf" ->
         isEmptyValue(value) \/ (value.t = "number" /\ value.n % keyword = 0)
    [] name = "minItems" ->
         isEmptyValue(value) \/ (value.t = "array" /\ Len(value.v) >= keyword)
    [] name = "maxItems" ->
         isEmptyValue(value) \/ (value.t = "array" /\ Len(value.v) <= keyword)
    [] name = "uniqueItems" ->
         \/ isEmptyValue(value)
         \/ ~keyword
         \/ value.t = "array"
              /\ Cardinality({value.v[n] : n \in DOMAIN value.v}) = Len(value.v)
    [] name = "const" -> value = JSString(keyword)

\* what a control holds when it holds nothing
EmptyValues == {JSString(""), JSUndefined, Null}

\* what the control of a field with a validator of a name can hold
ControlValues(name) ==
  EmptyValues
    \cup (CASE name \in {"exclusiveMinimum", "exclusiveMaximum", "multipleOf"} ->
                 {JSNumber(n) : n \in {1, 2, 3, 6}}
            [] name \in {"minItems", "maxItems", "uniqueItems"} ->
                 {JSArray(<<>>), JSArray(<<"a">>), JSArray(<<"a", "a">>),
                  JSArray(<<"a", "b", "c">>)}
            [] OTHER -> {JSString("a"), JSString("b")})

\* schemas with every keyword that has a validator
ValidatorInputs ==
  {[type |-> "object",
    properties |->
      [l |-> [type |-> "null"],
       p |-> [type |-> "number", exclusiveMinimum |-> 1, exclusiveMaximum |-> 6,
              multipleOf |-> 2],
       q |-> [type |-> "array", minItems |-> 1, maxItems |-> 2, uniqueItems |-> unique,
              items |-> SingleItems([type |-> "string"])],
       x |-> [type |-> "string", const |-> "a"]]] : unique \in BOOLEAN}
    \cup {[const |-> "a"], [type |-> "null"], [type |-> "null", const |-> "b"]}

\* the fields of a compiled form that the renderer reaches first
TopFields ==
  IF IsError(field) THEN {}
  ELSE {field} \cup (IF has(field, "fieldGroup")
                       THEN {field.fieldGroup[n] : n \in DOMAIN field.fieldGroup}
                       ELSE {})

\* the renderer runs a validator of a field on the value of its control
Validate(f, name, value) ==
  /\ pc = "compiled"
  /\ evaluated' = [kind |-> "validator", name |-> name, value |-> value,
                   keyword |-> f.validators[name],
                   valid |-> runValidator(name, f.validators[name], value)]
  /\ UNCHANGED <<rootSchema, schema, resolved, field, fieldArray, pc>>
  /\ UNCHANGED unionVars
  /\ UNCHANGED storeVars

(***************************************************************************)
(* The expressions of lines 348, 366 and 372, called by the renderer with  *)
(* the model m of the object whose properties are the siblings.            *)
(***************************************************************************)
JSObject(o) == [t |-> "object", v |-> o]

\* the values that a property of the model may hold; undefined when it has none
TriggerValues == EmptyValues \cup {JSString("a"), JSString("z")}

\* no model, or a model with the properties keys
SiblingModels(keys) ==
  {JSUndefined, Null} \cup {JSObject(o) : o \in [keys -> TriggerValues]}

\* m[key]
read(m, key) == IF key \in DOMAIN m.v THEN m.v[key] ELSE JSUndefined

\* hideExpression of lines 366 and 372
dependencyHideExpression(e, m) ==
  IF e.kind = "dependency"
    THEN m.t # "object" \/ isEmptyValue(read(m, e.key))
    ELSE m.t # "object" \/ JSString(e.const) # read(m, e.key)

\* expressionProperties['templateOptions.required'] of line 348, as the
\* renderer takes it: a model that is undefined or null is returned as it is
requiredExpression(triggers, m) ==
  /\ m.t = "object"
  /\ \E n \in DOMAIN triggers : ~isEmptyValue(read(m, triggers[n]))

\* the renderer asks whether the field of a schema dependency is hidden
EvaluateHide(f, m) ==
  /\ pc = "compiled"
  /\ evaluated' = [kind |-> "hide", expression |-> f.hideExpression, model |-> m,
                   hidden |-> dependencyHideExpression(f.hideExpression, m)]
  /\ UNCHANGED <<rootSchema, schema, resolved, field, fieldArray, pc>>
  /\ UNCHANGED unionVars
  /\ UNCHANGED storeVars

\* the renderer asks whether the field of a property is required
EvaluateRequired(f, m) ==
  /\ pc = "compiled"
  /\ evaluated' = [kind |-> "required", key |-> f.key,
                   triggers |-> f.expressionProperties.required, model |-> m,
                   required |-> requiredExpression(f.expressionProperties.required, m)]
  /\ UNCHANGED <<rootSchema, schema, resolved, field, fieldArray, pc>>
  /\ UNCHANGED unionVars
  /\ UNCHANGED storeVars

(***************************************************************************)
(* The schema trees compiled: a schema that may hold an empty allOf, put   *)
(* at the places of a tree.                                                *)
(***************************************************************************)
Plain == [type |-> "string"]

PlainObject == [type |-> "object", properties |-> [p |-> Plain]]

Holes ==
  {[allOf |-> <<>>],
   [allOf |-> <<>>, type |-> "string"],
   ("$ref" :> PointerTo("e")) @@ EmptyObject,
   ("$ref" :> PointerTo("a")) @@ [allOf |-> <<>>],
   ("$ref" :> PointerTo("h")) @@ [title |-> "Mine"],
   [allOf |-> <<[allOf |-> <<>>]>>],
   [allOf |-> <<Plain, ("$ref" :> PointerTo("e")) @@ EmptyObject>>],
   [allOf |-> <<[properties |-> [p |-> [allOf |-> <<>>]]]>>],
   [allOf |-> <<Plain, [minLength |-> 2]>>],
   Plain,
   PlainObject}

AtRoot(h) == h

InProperty(h) == [type |-> "object", properties |-> [p |-> h]]

InSecondProperty(h) ==
  [type |-> "object", required |-> <<"q">>, properties |-> [p |-> Plain, q |-> h]]

InOneOf(h) == [type |-> "object", oneOf |-> <<PlainObject, h>>]

InAnyOf(h) ==
  [type |-> "object", properties |-> [p |-> Plain], anyOf |-> <<h, PlainObject>>]

InAnyOfAlone(h) == [type |-> "object", anyOf |-> <<PlainObject, h>>]

InItems(h) == InProperty([type |-> "array", items |-> SingleItems(h)])

InTupleItems(h) == InProperty([type |-> "array", items |-> TupleItems(<<h>>)])

InAdditionalItems(h) ==
  InProperty([type |-> "array", items |-> TupleItems(<<>>), additionalItems |-> h])

BelowItems(h) == InItems(InProperty(h))

InRootItems(h) == [type |-> "array", items |-> SingleItems(h)]

\* schemas of constants
Constants == <<[const |-> "a"], [const |-> "b", title |-> "B"], [enum |-> <<"c">>]>>

EnumSchemas ==
  {[anyOf |-> <<[const |-> "a"], [const |-> "b"]>>],
   [oneOf |-> Constants],
   [enum |-> <<"a", "b">>],
   [type |-> "string", enum |-> <<"a", "b">>],
   [type |-> "number", anyOf |-> Constants],
   [type |-> "null", enum |-> <<"a">>],
   [type |-> "object", anyOf |-> Constants],
   [type |-> "object", properties |-> [p |-> Plain], oneOf |-> Constants],
   [type |-> "array", enum |-> <<"a", "b">>],
   [type |-> "array", uniqueItems |-> TRUE, items |-> SingleItems([enum |-> <<"a", "b">>])],
   [type |-> "array", uniqueItems |-> TRUE,
    items |-> SingleItems([type |-> "string", oneOf |-> Constants])]}

\* schemas that are close to those, and no enum
NearEnumSchemas ==
  {[anyOf |-> <<[const |-> "a"], Plain>>],
   [type |-> "array", uniqueItems |-> FALSE, items |-> SingleItems([enum |-> <<"a", "b">>])],
   [type |-> "array", uniqueItems |-> TRUE, items |-> TupleItems(<<[enum |-> <<"a">>]>>)],
   [type |-> "string", oneOf |-> <<[enum |-> <<"a", "b">>]>>]}

EnumInputs ==
  UNION {{AtRoot(e), InProperty(e), InSecondProperty(e)} :
           e \in EnumSchemas \cup NearEnumSchemas}

\* schemas of each type, with and without a title
LabelNodes ==
  {SpreadObjects([type |-> t], titled) :
     t \in {"boolean", "number", "string", "object", "null", "array"},
     titled \in {EmptyObject, [title |-> "my_title"], [title |-> "URL"]}}
    \cup {[title |-> "my_title"]}

UnderKey(h) == [type |-> "object", properties |-> [first_name |-> h]]

LabelInputs ==
  UNION {{AtRoot(h), UnderKey(h)} : h \in LabelNodes}
    \cup {InItems(h) : h \in {[type |-> "boolean"], [type |-> "string", title |-> "URL"]}}

\* the schemas that a dependency brings in
Extra == [properties |-> [x |-> Plain]]

ByKind ==
  [oneOf |-> <<[properties |-> [kind |-> [const |-> "a"], x |-> Plain]],
               [properties |-> [kind |-> [enum |-> <<"b">>], l |-> [type |-> "number"]]]>>]

\* objects with dependencies: of a schema on a declared property, on a
\* property that is not declared, in an object without properties, by the
\* constant of the property; of properties on properties
DependencyInputs ==
  {[type |-> "object", properties |-> [p |-> Plain, q |-> Plain],
    dependencies |-> [p |-> SchemaDependency(Extra)]],
   [type |-> "object", properties |-> [q |-> Plain],
    dependencies |-> [p |-> SchemaDependency(Extra)]],
   [type |-> "object", dependencies |-> [p |-> SchemaDependency(Extra)]],
   [type |-> "object", properties |-> [p |-> Plain],
    dependencies |-> [p |-> SchemaDependency(Plain)]],
   [type |-> "object", properties |-> [kind |-> Plain, q |-> Plain],
    dependencies |-> [kind |-> SchemaDependency(ByKind)]],
   [type |-> "object", properties |-> [p |-> Plain],
    dependencies |-> [p |-> SchemaDependency([oneOf |-> <<>>])]],
   [type |-> "object", properties |-> [p |-> Plain, q |-> Plain],
    dependencies |-> [p |-> SchemaDependency(Extra), q |-> SchemaDependency(Extra)],
    oneOf |-> <<PlainObject, Extra>>, anyOf |-> <<Extra, PlainObject>>],
   [type |-> "object", oneOf |-> <<PlainObject, Extra>>, anyOf |-> <<Extra, PlainObject>>],
   [type |-> "object", properties |-> [p |-> Plain, q |-> Plain, x |-> Plain],
    dependencies |-> [p |-> PropertyDependency(<<"q", "x">>)]],
   [type |-> "object", required |-> <<"x">>,
    properties |-> [l |-> Plain, p |-> Plain, q |-> Plain, x |-> Plain],
    dependencies |-> [l |-> PropertyDependency(<<"q">>),
                      p |-> PropertyDependency(<<"q", "x">>),
                      x |-> SchemaDependency(Extra)]],
   [type |-> "object", properties |-> [q |-> Plain],
    dependencies |-> [p |-> PropertyDependency(<<"q", "x">>)]]}

\* a schema with the block x-schema-form
WithForm(sch, xsf) == ("x-schema-form" :> xsf) @@ sch

\* schemas whose x-schema-form has a hideExpression that new Function refuses
MalformedNodes ==
  {WithForm(Plain, [condition |-> [hideExpression |-> "return ("]]),
   WithForm([type |-> "number", title |-> "N", exclusiveMinimum |-> 1],
            [type |-> "textarea", wrappers |-> <<"expansion-panel">>,
             condition |-> [hideExpression |-> "model.x ===", disableAutoClear |-> TRUE]]),
   WithForm(PlainObject, [condition |-> [hideExpression |-> "return ("]]),
   WithForm([enum |-> <<"a", "b">>], [condition |-> [hideExpression |-> "model.x ==="]])}

\* schemas whose x-schema-form has no hideExpression, or one that compiles
FormNodes ==
  {WithForm(Plain, [condition |-> [hideExpression |-> "return !model.x"]]),
   WithForm(Plain, [type |-> "textarea"]),
   WithForm(PlainObject, [condition |-> [disableAutoClear |-> TRUE]]),
   WithForm(Plain, [wrappers |-> <<"expansion-panel">>,
                    condition |-> [hideExpression |-> "return !model.x"]])}

FormInputs ==
  UNION {{AtRoot(n), InProperty(n), InSecondProperty(n)} : n \in MalformedNodes \cup FormNodes}

CompileInputs ==
  UNION {{AtRoot(h), InProperty(h), InSecondProperty(h), InOneOf(h), InAnyOf(h),
          InAnyOfAlone(h), InItems(h), InTupleItems(h), InAdditionalItems(h),
          BelowItems(h), InRootItems(h), InProperty(InProperty(h))} : h \in Holes}
    \cup {InProperty([type |-> "array"]),
          InProperty([type |-> "array", items |-> TupleItems(<<>>)])}
    \cup EnumInputs
    \cup ValidatorInputs
    \cup LabelInputs
    \cup DependencyInputs
    \cup {InProperty(d) : d \in DependencyInputs}
    \cup FormInputs

\* toFieldConfig called by the editor
Compile ==
  /\ pc = "compile"
  /\ field' = toFieldConfig(schema)
  /\ pc' = "compiled"
  /\ UNCHANGED <<rootSchema, schema, resolved, fieldArray, evaluated>>
  /\ UNCHANGED unionVars
  /\ UNCHANGED storeVars

\* the array fields of a compiled form that the renderer reaches first
ArrayFields ==
  IF IsError(field) \/ ~has(field, "fieldGroup") THEN {}
  ELSE {field.fieldGroup[n] : n \in {m \in DOMAIN field.fieldGroup :
                                       has(field.fieldGroup[m], "getter")}}

\* the renderer reads field.fieldArray of an array field
ReadFieldArray(f) ==
  /\ pc = "compiled"
  /\ fieldArray' = getFieldArray(f)
  /\ UNCHANGED <<rootSchema, schema, resolved, field, evaluated, pc>>
  /\ UNCHANGED unionVars
  /\ UNCHANGED storeVars

InitCompile ==
  /\ pc = "compile"
  /\ rootSchema = RootDocument
  /\ schema \in CompileInputs
  /\ resolved = NotResolved
  /\ field = NotResolved
  /\ fieldArray = NotResolved
  /\ evaluated = NotEvaluated
  /\ store = <<>>
  /\ pullRequestInfo = <<>>
  /\ requests = <<>>
  /\ outcome = <<>>
  /\ mode = "oneOf"
  /\ branches = <<>>
  /\ initialModel = [k \in ModelKeys |-> "undefined"]
  /\ invalid = {}
  /\ spread = "iterate"
  /\ selectControl = NoControl
  /\ lastEval = NoEval
  /\ inits = 0

NextCompile ==
  \/ Compile
  \/ \E f \in ArrayFields : ReadFieldArray(f)
  \/ \E f \in {g \in TopFields : has(g, "validators")} :
       \E name \in DOMAIN f.validators :
         \E value \in ControlValues(name) : Validate(f, name, value)
  \/ \E f \in {g \in TopFields : /\ has(g, "hideExpression")
                                  /\ g.hideExpression.kind \in {"dependency", "constDependency"}} :
       \E m \in SiblingModels({f.hideExpression.key}) : EvaluateHide(f, m)
  \/ \E f \in {g \in TopFields : has(g, "expressionProperties")} :
       \E m \in SiblingModels(Range(f.expressionProperties.required)) :
         EvaluateRequired(f, m)

SpecCompile == InitCompile /\ [][NextCompile]_vars

(***************************************************************************)
(* The compiler: what the claims say.                                      *)
(***************************************************************************)
\* the definition that the $ref of a hole points to
TargetOf(h) == RootDocument.d[h["$ref"][Len(h["$ref"])]]

\* an allOf that is present but empty anywhere in a schema tree
RECURSIVE HasEmptyAllOf(_)
HasEmptyAllOf(sch) ==
  \/ has(sch, "allOf")
       /\ (sch.allOf = <<>> \/ \E n \in DOMAIN sch.allOf : HasEmptyAllOf(sch.allOf[n]))
  \/ hasRef(sch) /\ HasEmptyAllOf(TargetOf(sch))
  \/ has(sch, "properties")
       /\ \E k \in DOMAIN sch.properties : HasEmptyAllOf(sch.properties[k])
  \/ has(sch, "oneOf") /\ \E n \in DOMAIN sch.oneOf : HasEmptyAllOf(sch.oneOf[n])
  \/ has(sch, "anyOf") /\ \E n \in DOMAIN sch.anyOf : HasEmptyAllOf(sch.anyOf[n])
  \/ has(sch, "items") /\ sch.items.kind = "single" /\ HasEmptyAllOf(sch.items.schema)
  \/ has(sch, "items") /\ sch.items.kind = "tuple"
       /\ \E n \in DOMAIN sch.items.schemas : HasEmptyAllOf(sch.items.schemas[n])
  \/ has(sch, "additionalItems") /\ HasEmptyAllOf(sch.additionalItems)

\* C8 as stated: compiling a schema tree that holds an empty allOf anywhere,
\* also behind a $ref or in a member of another allOf, throws an error to the
\* caller and returns no descriptor
C8_AnyEmptyAllOfFails ==
  (pc = "compiled" /\ HasEmptyAllOf(schema)) => IsError(field)

\* the allOf of a schema, or of the definition its $ref points to, is empty,
\* or that of a member of it is
RECURSIVE EmptyAllOfIn(_)
EmptyAllOfIn(h) ==
  LET e == IF hasRef(h) THEN TargetOf(h) ELSE h
  IN  /\ has(e, "allOf")
      /\ (e.allOf = <<>> \/ \E n \in DOMAIN e.allOf : EmptyAllOfIn(e.allOf[n]))

\* C8 amended: a schema whose allOf is empty once its $ref, if any, is
\* followed (what stands beside a $ref is dropped), or that has a member of
\* that kind, makes compile throw the empty-allOf error to its caller when
\* it is the root, a declared property at any depth, a oneOf branch, an anyOf
\* branch of an object with properties, or the single items schema of an
\* array below the root; as tuple items, additionalItems or below an items
\* schema it makes compile return a descriptor, and the error is thrown when
\* the renderer reads fieldArray
C8_EmptyAllOfSurfaces ==
  \A h \in Holes :
    EmptyAllOfIn(h) =>
      /\ (/\ pc = "compiled"
          /\ schema \in {AtRoot(h), InProperty(h), InSecondProperty(h), InOneOf(h),
                         InAnyOf(h), InItems(h), InProperty(InProperty(h))})
           => field = EmptyAllOfError
      /\ (/\ pc = "compiled"
          /\ schema \in {InTupleItems(h), InAdditionalItems(h), BelowItems(h)})
           => /\ ~IsError(field)
              /\ fieldArray \in {NotResolved, EmptyAllOfError}

\* C8 happened: the second property of an object has a member of its allOf
\* that refers to a definition with an empty allOf, and compile threw
C8_Witness ==
  /\ pc = "compiled"
  /\ schema = InSecondProperty([allOf |-> <<Plain, ("$ref" :> PointerTo("e")) @@ EmptyObject>>])
  /\ field = EmptyAllOfError

\* the constant of a branch, and the options that a list of constants makes
ConstantOf(sch) == IF has(sch, "const") THEN sch.const ELSE sch.enum[1]

OptionsOf(sch) ==
  IF has(sch, "enum")
    THEN [n \in DOMAIN sch.enum |-> [value |-> sch.enum[n], label |-> sch.enum[n]]]
  ELSE LET constants == IF has(sch, "anyOf") THEN sch.anyOf ELSE sch.oneOf
       IN  [n \in DOMAIN constants |->
              [value |-> ConstantOf(constants[n]),
               label |-> IF has(constants[n], "title") THEN constants[n].title
                         ELSE ConstantOf(constants[n])]]

\* a field is the enum of a schema of constants
EnumOf(f, e) ==
  /\ ~IsError(f)
  /\ f.type = "enum"
  /\ f.templateOptions.options =
       OptionsOf(IF guessType(e) = "array" /\ has(e, "items") THEN e.items.schema ELSE e)
  /\ f.templateOptions.multiple = (guessType(e) = "array")

\* C11: a schema with enum, with anyOf or oneOf of constants only, or a
\* uniqueItems array of such items compiles, whatever its type and wherever it
\* stands, to a field of type enum with one option per constant in order,
\* labelled by the title of the constant or else by the constant, and multiple
\* exactly when the type is array
C11_EnumDetected ==
  \A e \in EnumSchemas :
    /\ (pc = "compiled" /\ schema = AtRoot(e)) => EnumOf(field, e)
    /\ (pc = "compiled" /\ schema = InProperty(e)) => EnumOf(field.fieldGroup[1], e)
    /\ (pc = "compiled" /\ schema = InSecondProperty(e)) => EnumOf(field.fieldGroup[2], e)

\* a value that is the empty string, undefined or null
Absent(v) == v \in {[t |-> "string", s |-> ""], [t |-> "undefined"], [t |-> "null"]}

\* C12 as stated: every validator that the compiler attaches holds of an empty
\* or absent value
C12_EmptyIsValid ==
  (evaluated.kind = "validator" /\ Absent(evaluated.value)) => evaluated.valid

\* C12 amended: the validators of exclusiveMinimum, exclusiveMaximum,
\* multipleOf, minItems, maxItems and uniqueItems hold of an empty or absent
\* value; the validator of null holds of null alone, not of the empty string
\* or undefined, and the validator of const holds of the constant alone
C12_EmptyIsValidButConstNull ==
  evaluated.kind = "validator" =>
    /\ (evaluated.name \notin {"const", "null"} /\ Absent(evaluated.value))
         => evaluated.valid
    /\ evaluated.name = "null" => (evaluated.valid <=> evaluated.value = [t |-> "null"])
    /\ evaluated.name = "const" =>
         (evaluated.valid <=> evaluated.value = [t |-> "string", s |-> evaluated.keyword])

\* C12 happened: the validator of minItems held of the empty string for an
\* array that must have an item
C12_Witness ==
  /\ evaluated.kind = "validator"
  /\ evaluated.name = "minItems"
  /\ evaluated.value = [t |-> "string", s |-> ""]
  /\ evaluated.valid

\* the label that a title, or else the last element of the key path, makes
LabelOf(h, segment) ==
  IF has(h, "title") THEN titleCase(replaceUnderscores(h.title))
  ELSE IF segment = "-" THEN ""
  ELSE titleCase(replaceUnderscores(segment))

\* C13: the label of a field is the title of its schema in title case with
\* spaces for underscores; without a title it is the last element of the key
\* path (shown in title case), and empty when that element is the "-" of an
\* array's items; compiling a schema of any type as the root returns a field
C13_LabelFromTitle ==
  \A h \in LabelNodes :
    /\ (pc = "compiled" /\ schema = AtRoot(h))
         => /\ ~IsError(field)
            /\ has(h, "title") => field.templateOptions.label = LabelOf(h, "")
    /\ (pc = "compiled" /\ schema = UnderKey(h))
         => /\ ~IsError(field)
            /\ field.fieldGroup[1].templateOptions.label = LabelOf(h, "first_name")
    /\ (pc = "compiled" /\ schema = InItems(h) /\ fieldArray # NotResolved)
         => /\ ~IsError(fieldArray)
            /\ fieldArray.templateOptions.label = LabelOf(h, "-")

\* the groups of sibling fields in the tree of a field
RECURSIVE Groups(_)
Groups(f) ==
  IF ~has(f, "fieldGroup") THEN {}
  ELSE {f.fieldGroup}
         \cup UNION {Groups(f.fieldGroup[n]) : n \in DOMAIN f.fieldGroup}

\* the key path of a field below that of its parent
KeyPathOf(f) == IF has(f, "key") THEN <<f.key>> ELSE <<>>

\* C14 as stated: no two siblings in a compiled tree have the same key path,
\* the fields of schema dependencies and of unions included
C14_SiblingsDistinct ==
  (pc = "compiled" /\ ~IsError(field)) =>
    \A g \in Groups(field) :
      \A i, j \in DOMAIN g : i # j => KeyPathOf(g[i]) # KeyPathOf(g[j])

\* the keys of the fields of a group that have one, in their order
RECURSIVE KeysIn(_)
KeysIn(g) ==
  IF g = <<>> THEN <<>>
  ELSE (IF has(Head(g), "key") THEN <<Head(g).key>> ELSE <<>>) \o KeysIn(Tail(g))

\* a field pushed for a schema dependency or a union, or a branch of a union
Appended(f) ==
  \/ has(f, "type") /\ f.type = "union"
  \/ has(f, "hideExpression")
       /\ f.hideExpression.kind \in {"dependency", "constDependency", "union"}

\* C14 amended: the fields of the declared properties of an object carry the
\* names of the properties as keys, in their order and each once, so that no
\* two siblings that have a key have the same; the fields appended for schema
\* dependencies and for unions, the selector and the branches of a union have
\* no key
C14_KeyedSiblingsDistinct ==
  (pc = "compiled" /\ ~IsError(field)) =>
    /\ \A g \in Groups(field) :
         /\ \A i, j \in DOMAIN g :
              (i # j /\ has(g[i], "key") /\ has(g[j], "key")) => g[i].key # g[j].key
         /\ \A i \in DOMAIN g : Appended(g[i]) => ~has(g[i], "key")
    /\ (schema \in DependencyInputs /\ has(schema, "properties"))
         => KeysIn(field.fieldGroup) = Keys(schema.properties)
    /\ (schema \in DependencyInputs /\ has(field, "fieldGroup"))
         => Len(field.fieldGroup) =
              Len(KeysIn(field.fieldGroup))
                + Cardinality({i \in DOMAIN field.fieldGroup : Appended(field.fieldGroup[i])})

\* C14 happened: an object with two properties, a schema dependency on each
\* and both unions compiled to two fields with a key and four without
C14_Witness ==
  /\ pc = "compiled"
  /\ ~IsError(field)
  /\ has(schema, "dependencies") /\ has(schema, "oneOf") /\ has(schema, "anyOf")
  /\ KeysIn(field.fieldGroup) = <<"p", "q">>
  /\ Len(field.fieldGroup) = 6

\* the value of a property of the model is empty, or there is no model
TriggerEmpty(m, key) == m.t # "object" \/ Absent(read(m, key))

\* the keys of the dependencies of a schema that are schemas
SchemaDependencies(sch) ==
  IF ~has(sch, "dependencies") THEN {}
  ELSE {k \in DOMAIN sch.dependencies : sch.dependencies[k].kind = "schema"}

\* C15: for every key of dependencies whose value is a schema, declared under
\* properties or not, the compiled object has a further child for it, and that
\* child is hidden exactly when the property of that key is empty in the model
\* or there is no model
C15_DependencyHidden ==
  /\ (pc = "compiled" /\ schema \in DependencyInputs) =>
       /\ ~IsError(field)
       /\ \A k \in SchemaDependencies(schema) :
            \E i \in DOMAIN field.fieldGroup :
              /\ has(field.fieldGroup[i], "hideExpression")
              /\ field.fieldGroup[i].hideExpression.key = k
  /\ evaluated.kind = "hide" =>
       (evaluated.hidden <=> TriggerEmpty(evaluated.model, evaluated.expression.key))

\* the properties whose dependency is a list of names that holds d
TriggersOf(sch, d) ==
  IF ~has(sch, "dependencies") THEN {}
  ELSE {t \in DOMAIN sch.dependencies :
          /\ sch.dependencies[t].kind = "properties"
          /\ d \in Range(sch.dependencies[t].names)}

\* a property is named in the required list of a schema
StaticallyRequired(sch, d) == has(sch, "required") /\ d \in Range(sch.required)

\* C16: the triggers of a declared property d are the keys of dependencies
\* whose list of names holds d, and no others; a property that is required
\* by the schema has no condition; one that is not is required for a model
\* exactly when one of its triggers is not empty in the model, and not
\* required without a model
C16_ConditionalRequired ==
  /\ (pc = "compiled" /\ schema \in DependencyInputs /\ has(schema, "properties")) =>
       \A i \in DOMAIN field.fieldGroup :
         LET f == field.fieldGroup[i]
         IN  has(f, "key") =>
               IF StaticallyRequired(schema, f.key)
                 THEN f.templateOptions.required /\ ~has(f, "expressionProperties")
               ELSE IF TriggersOf(schema, f.key) = {}
                 THEN ~has(f, "expressionProperties") /\ ~has(f.templateOptions, "required")
               ELSE /\ ~has(f.templateOptions, "required")
                    /\ has(f, "expressionProperties")
                    /\ Range(f.expressionProperties.required) = TriggersOf(schema, f.key)
  /\ evaluated.kind = "required" =>
       /\ ~StaticallyRequired(schema, evaluated.key)
       /\ evaluated.required <=>
            /\ evaluated.model.t = "object"
            /\ \E t \in TriggersOf(schema, evaluated.key) : ~Absent(read(evaluated.model, t))

\* C16 happened: q, named by the dependencies of l and of p, was found
\* required for a model in which l is empty and p is not
C16_Witness ==
  /\ evaluated.kind = "required"
  /\ evaluated.key = "q"
  /\ evaluated.triggers = <<"l", "p">>
  /\ evaluated.model = JSObject([l |-> JSString(""), p |-> JSString("a")])
  /\ evaluated.required

\* objects with oneOf or anyOf whose branches are objects
UnionInputs ==
  {InOneOf(PlainObject), InAnyOf(PlainObject), InAnyOfAlone(PlainObject)}
    \cup {d \in DependencyInputs : has(d, "oneOf")}

\* the modes of the unions of an object, oneOf first
ModesOf(sch) ==
  (IF has(sch, "oneOf") THEN <<"oneOf">> ELSE <<>>)
    \o (IF has(sch, "anyOf") THEN <<"anyOf">> ELSE <<>>)

\* a field is the union of the branches of a mode: a selector of type enum
\* with an option for each branch, and a group with a member for each branch
\* in their order
UnionOf(f, unionMode, schemas) ==
  /\ has(f, "type") /\ f.type = "union"
  /\ Len(f.fieldGroup) = 2
  /\ f.fieldGroup[1].type = "enum"
  /\ f.fieldGroup[1].templateOptions.multiple = (unionMode = "anyOf")
  /\ Len(f.fieldGroup[1].templateOptions.options) = Len(schemas)
  /\ \A n \in DOMAIN schemas : f.fieldGroup[1].templateOptions.options[n].value = n - 1
  /\ Len(f.fieldGroup[2].fieldGroup) = Len(schemas)
  /\ \A n \in DOMAIN schemas :
       /\ f.fieldGroup[2].fieldGroup[n].type = guessType(schemas[n])
       /\ f.fieldGroup[2].fieldGroup[n].hideExpression =
            [kind |-> "union", mode |-> unionMode, i |-> n - 1]

\* the fields of an object end with the unions of its modes, and no other
\* field of it is a union
EndsWithUnions(f, sch) ==
  LET modes == ModesOf(sch)
      before == Len(f.fieldGroup) - Len(modes)
  IN  /\ ~IsError(f)
      /\ before >= 0
      /\ \A n \in DOMAIN modes :
           UnionOf(f.fieldGroup[before + n], modes[n], sch[modes[n]])
      /\ \A n \in 1..before : f.fieldGroup[n].type # "union"

\* C17: an object with oneOf, or with anyOf, whose branches are not all
\* constants compiles to a field whose children end with a union for that
\* mode, also when the object has anyOf and neither properties nor oneOf
C17_UnionChild ==
  \A sch \in UnionInputs :
    (pc = "compiled" /\ schema = sch) => EndsWithUnions(field, sch)

\* a schema as it is without the hideExpression of its x-schema-form
Unconditioned(n) ==
  WithForm(n, Assign(n["x-schema-form"], "condition",
                     Without(n["x-schema-form"].condition, "hideExpression")))

\* C18: when the hideExpression of an x-schema-form is refused by new
\* Function, compile returns the field that it returns for the schema without
\* that hideExpression, every other attribute of the block applied, and the
\* field has no hideExpression
C18_MalformedConditionIgnored ==
  \A n \in MalformedNodes :
    /\ (pc = "compiled" /\ schema = InProperty(n))
         => /\ ~IsError(field)
            /\ field = toFieldConfig(InProperty(Unconditioned(n)))
            /\ ~has(field.fieldGroup[1], "hideExpression")
    /\ (pc = "compiled" /\ schema = InSecondProperty(n))
         => /\ ~IsError(field)
            /\ field = toFieldConfig(InSecondProperty(Unconditioned(n)))
            /\ ~has(field.fieldGroup[2], "hideExpression")
    /\ (pc = "compiled" /\ schema = AtRoot(n) /\ guessType(n) \notin LabelledTypes)
         => /\ ~IsError(field)
            /\ field = toFieldConfig(Unconditioned(n))
            /\ ~has(field, "hideExpression")

\* C18 happened: a number with a textarea type, a wrapper, disableAutoClear
\* and a hideExpression that is refused compiled to a field with all of these
\* but the hideExpression
C18_Witness ==
  /\ pc = "compiled"
  /\ schema \in {InSecondProperty(n) : n \in MalformedNodes}
  /\ ~IsError(field)
  /\ field.fieldGroup[2].type = "textarea"
  /\ field.fieldGroup[2].wrappers = <<"expansion-panel">>
  /\ field.fieldGroup[2].autoClear = FALSE
  /\ has(field.fieldGroup[2].validators, "exclusiveMinimum")
  /\ ~has(field.fieldGroup[2], "hideExpression")

(***************************************************************************)
(* ConfigStoreService: the store of the editor, its pull request status    *)
(* and the requests to the backend that wait for an answer. Of the state   *)
(* of the store, the fields that the methods below set by name are kept;   *)
(* the deployment and the lists that the builder derives from configs are  *)
(* read by none of them. A config is known by its name.                    *)
(***************************************************************************)
\* the requests that may wait for an answer at a time
MaxRequests == 2

ConfigNames == {"c1", "c2"}

Config(name) == [name |-> name]

\* the lists of configs that the backend returns
ConfigLists ==
  {<<>>, <<Config("c1")>>, <<Config("c2")>>, <<Config("c1"), Config("c2")>>}

\* lines 13-28
initialConfigStoreState ==
  [configs |-> <<>>, searchTerm |-> JSUndefined, releaseSubmitInFlight |-> FALSE,
   editedConfig |-> Null, editedTestCase |-> Null]

\* lines 30-33
initialPullRequestState == [pull_request_pending |-> JSUndefined]

\* a request of configLoaderService; config is what the subscriber keeps
Request(op, config) == [op |-> op, config |-> config]

RequestKinds ==
  {Request(op, Null) : op \in {"getPullRequestStatus", "submitRelease", "validateConfig"}}
    \cup {Request("submitConfig", Config(name)) : name \in ConfigNames}

NoRequests == [r \in RequestKinds |-> 0]

RECURSIVE CountOf(_, _)
CountOf(reqs, kinds) ==
  IF kinds = {} THEN 0
  ELSE LET r == CHOOSE k \in kinds : TRUE
       IN  reqs[r] + CountOf(reqs, kinds \ {r})

\* the number of requests without an answer
Waiting(reqs) == CountOf(reqs, RequestKinds)

send(reqs, r) == [reqs EXCEPT ![r] = @ + 1]

answered(reqs, r) == [reqs EXCEPT ![r] = @ - 1]

\* what a call returned or threw, or the answer that a subscriber took
Outcome(name, thrown) == [name |-> name, thrown |-> thrown]

NotThrown == "none"

\* new ConfigStoreStateBuilder(state).name(value).build()
withField(state, name, value) == [state EXCEPT ![name] = value]

\* lines 270-275
updateReleaseSubmitInFlight(state, releaseSubmitInFlight) ==
  withField(state, "releaseSubmitInFlight", releaseSubmitInFlight)

\* lines 277-283
updateEditedConfig(state, config) ==
  withField(withField(state, "editedConfig", config), "editedTestCase", Null)

\* configs.find(x => x.name === name), undefined when there is none
find(configs, name) ==
  IF \E n \in DOMAIN configs : configs[n].name = name THEN Config(name) ELSE JSUndefined

\* a check of the edited config that lets null pass
isMissingNever(config) == FALSE

\* !config, lines 199 and 207
isMissing(config) == config \in {Null, JSUndefined}

\* initialise, lines 69-85
Initialise(configs) ==
  /\ pc = "store"
  /\ Waiting(requests) < MaxRequests
  /\ store' = withField(store, "configs", configs)
  /\ requests' = send(requests, Request("getPullRequestStatus", Null))
  /\ outcome' = Outcome("initialise", NotThrown)
  /\ UNCHANGED <<pullRequestInfo, pc>>
  /\ UNCHANGED unionVars
  /\ UNCHANGED resolveVars

\* updateSearchTerm, lines 87-94
UpdateSearchTerm(searchTerm) ==
  /\ pc = "store"
  /\ store' = withField(store, "searchTerm", searchTerm)
  /\ outcome' = Outcome("updateSearchTerm", NotThrown)
  /\ UNCHANGED <<pullRequestInfo, requests, pc>>
  /\ UNCHANGED unionVars
  /\ UNCHANGED resolveVars

\* loadPullRequestStatus, lines 177-183: the request
LoadPullRequestStatus ==
  /\ pc = "store"
  /\ Waiting(requests) < MaxRequests
  /\ requests' = send(requests, Request("getPullRequestStatus", Null))
  /\ outcome' = Outcome("loadPullRequestStatus", NotThrown)
  /\ UNCHANGED <<store, pullRequestInfo, pc>>
  /\ UNCHANGED unionVars
  /\ UNCHANGED resolveVars

\* the answers to getPullRequestStatus
PullRequestInfos == {Null, [pull_request_pending |-> TRUE], [pull_request_pending |-> FALSE]}

\* lines 178-182: the subscriber of getPullRequestStatus
AnswerPullRequestStatus(info) ==
  /\ pc = "store"
  /\ requests[Request("getPullRequestStatus", Null)] > 0
  /\ requests' = answered(requests, Request("getPullRequestStatus", Null))
  /\ pullRequestInfo' = IF info # Null THEN info ELSE pullRequestInfo
  /\ outcome' = Outcome("answer getPullRequestStatus", NotThrown)
  /\ UNCHANGED <<store, pc>>
  /\ UNCHANGED unionVars
  /\ UNCHANGED resolveVars

\* submitRelease, lines 185-195: the call
SubmitRelease ==
  /\ pc = "store"
  /\ Waiting(requests) < MaxRequests
  /\ store' = updateReleaseSubmitInFlight(store, TRUE)
  /\ requests' = send(requests, Request("submitRelease", Null))
  /\ outcome' = Outcome("submitRelease", NotThrown)
  /\ UNCHANGED <<pullRequestInfo, pc>>
  /\ UNCHANGED unionVars
  /\ UNCHANGED resolveVars

\* StatusCode.OK
OK == "OK"

\* the answers to submitRelease: nothing, a result without a status code, and
\* results with one
ReleaseResults ==
  {Null, EmptyObject, [status_code |-> OK], [status_code |-> "ERROR"],
   [status_code |-> "BAD_REQUEST"]}

\* result && result.status_code && result.status_code == StatusCode.OK, line 188
isOK(result) == result # Null /\ has(result, "status_code") /\ result.status_code = OK

\* lines 187-194: the subscriber of submitRelease
AnswerRelease(result) ==
  /\ pc = "store"
  /\ requests[Request("submitRelease", Null)] > 0
  /\ requests' =
       IF isOK(result)
         THEN send(answered(requests, Request("submitRelease", Null)),
                   Request("getPullRequestStatus", Null))
         ELSE answered(requests, Request("submitRelease", Null))
  /\ store' = updateReleaseSubmitInFlight(store, FALSE)
  /\ outcome' = [name |-> "answer submitRelease", thrown |-> NotThrown, result |-> result]
  /\ UNCHANGED <<pullRequestInfo, pc>>
  /\ UNCHANGED unionVars
  /\ UNCHANGED resolveVars

\* a request ends with an error: none of the subscribers of lines 178, 187
\* and 211 takes errors
RequestFails(r) ==
  /\ pc = "store"
  /\ requests[r] > 0
  /\ requests' = answered(requests, r)
  /\ outcome' = [name |-> "error", thrown |-> NotThrown, request |-> r]
  /\ UNCHANGED <<store, pullRequestInfo, pc>>
  /\ UNCHANGED unionVars
  /\ UNCHANGED resolveVars

\* validateEditedConfig, lines 197-203; the caller subscribes to what it returns
ValidateEditedConfig ==
  /\ pc = "store"
  /\ isMissing(store.editedConfig) \/ Waiting(requests) < MaxRequests
  /\ IF isMissing(store.editedConfig)
       THEN /\ outcome' = Outcome("validateEditedConfig", "empty edited config")
            /\ UNCHANGED requests
       ELSE /\ outcome' = Outcome("validateEditedConfig", NotThrown)
            /\ requests' = send(requests, Request("validateConfig", Null))
  /\ UNCHANGED <<store, pullRequestInfo, pc>>
  /\ UNCHANGED unionVars
  /\ UNCHANGED resolveVars

\* the caller of validateEditedConfig takes the answer
AnswerValidate ==
  /\ pc = "store"
  /\ requests[Request("validateConfig", Null)] > 0
  /\ requests' = answered(requests, Request("validateConfig", Null))
  /\ outcome' = Outcome("answer validateConfig", NotThrown)
  /\ UNCHANGED <<store, pullRequestInfo, pc>>
  /\ UNCHANGED unionVars
  /\ UNCHANGED resolveVars

\* submitEditedConfig, lines 205-229: the call
SubmitEditedConfig ==
  /\ pc = "store"
  /\ isMissing(store.editedConfig) \/ Waiting(requests) < MaxRequests
  /\ IF isMissing(store.editedConfig)
       THEN /\ outcome' = Outcome("submitEditedConfig", "empty edited config")
            /\ UNCHANGED requests
       ELSE /\ outcome' = Outcome("submitEditedConfig", NotThrown)
            /\ requests' = send(requests, Request("submitConfig", store.editedConfig))
  /\ UNCHANGED <<store, pullRequestInfo, pc>>
  /\ UNCHANGED unionVars
  /\ UNCHANGED resolveVars

\* lines 211-228: the subscriber of submitConfig for the config it keeps
AnswerSubmitConfig(config, configs) ==
  /\ pc = "store"
  /\ requests[Request("submitConfig", config)] > 0
  /\ requests' = answered(requests, Request("submitConfig", config))
  /\ IF configs = Null
       THEN /\ outcome' = Outcome("answer submitConfig", NotThrown)
            /\ UNCHANGED store
       ELSE IF find(configs.v, config.name) = JSUndefined
         THEN /\ outcome' = Outcome("answer submitConfig",
                                     "Unexpected response from server during submitting config")
              /\ UNCHANGED store
       ELSE /\ outcome' = Outcome("answer submitConfig", NotThrown)
            /\ store' = withField(withField(store, "configs", configs.v),
                                   "editedConfig", find(configs.v, config.name))
  /\ UNCHANGED <<pullRequestInfo, pc>>
  /\ UNCHANGED unionVars
  /\ UNCHANGED resolveVars

\* setEditedConfigByName, lines 231-234, with getConfigByName, lines 285-293
SetEditedConfigByName(configName) ==
  /\ pc = "store"
  /\ IF find(store.configs, configName) = JSUndefined
       THEN /\ outcome' = Outcome("setEditedConfigByName", "no config with such name")
            /\ UNCHANGED store
       ELSE /\ outcome' = Outcome("setEditedConfigByName", NotThrown)
            /\ store' = updateEditedConfig(store, find(store.configs, configName))
  /\ UNCHANGED <<pullRequestInfo, requests, pc>>
  /\ UNCHANGED unionVars
  /\ UNCHANGED resolveVars

\* updateEditedConfig, lines 277-283, called by the editor
UpdateEditedConfig(config) ==
  /\ pc = "store"
  /\ store' = updateEditedConfig(store, config)
  /\ outcome' = Outcome("updateEditedConfig", NotThrown)
  /\ UNCHANGED <<pullRequestInfo, requests, pc>>
  /\ UNCHANGED unionVars
  /\ UNCHANGED resolveVars

\* the service as constructed, lines 39-40
InitStore ==
  /\ pc = "store"
  /\ store = initialConfigStoreState
  /\ pullRequestInfo = initialPullRequestState
  /\ requests = NoRequests
  /\ outcome = Outcome("constructor", NotThrown)
  /\ mode = "oneOf"
  /\ branches = <<>>
  /\ initialModel = [k \in ModelKeys |-> "undefined"]
  /\ invalid = {}
  /\ spread = "iterate"
  /\ selectControl = NoControl
  /\ lastEval = NoEval
  /\ inits = 0
  /\ rootSchema = <<>>
  /\ schema = <<>>
  /\ resolved = <<>>
  /\ field = <<>>
  /\ fieldArray = <<>>
  /\ evaluated = <<>>

NextStore ==
  \/ \E configs \in ConfigLists : Initialise(configs)
  \/ \E searchTerm \in {JSUndefined, JSString("a")} : UpdateSearchTerm(searchTerm)
  \/ LoadPullRequestStatus
  \/ \E info \in PullRequestInfos : AnswerPullRequestStatus(info)
  \/ SubmitRelease
  \/ \E result \in ReleaseResults : AnswerRelease(result)
  \/ \E r \in RequestKinds : RequestFails(r)
  \/ ValidateEditedConfig
  \/ AnswerValidate
  \/ SubmitEditedConfig
  \/ \E name \in ConfigNames, configs \in {Null} \cup {Ok(l) : l \in ConfigLists} :
       AnswerSubmitConfig(Config(name), configs)
  \/ \E name \in ConfigNames : SetEditedConfigByName(name)
  \/ \E config \in {Null} \cup {Config(name) : name \in ConfigNames} :
       UpdateEditedConfig(config)

SpecStore == InitStore /\ [][NextStore]_vars

(***************************************************************************)
(* The config store: what the claims say.                                  *)
(***************************************************************************)
\* C19: validateEditedConfig and submitEditedConfig, called when editedConfig
\* is null, throw at once: no request is sent, and the store and the pull
\* request status are as before
C19_MissingConfigFails ==
  [][(/\ outcome'.name \in {"validateEditedConfig", "submitEditedConfig"}
      /\ store.editedConfig = Null)
       => /\ outcome'.thrown = "empty edited config"
          /\ requests' = requests
          /\ store' = store
          /\ pullRequestInfo' = pullRequestInfo]_vars

\* C19 happened: submitEditedConfig threw in a store that has configs, none
\* of them edited, while a request waits for its answer
C19_Witness ==
  /\ outcome = Outcome("submitEditedConfig", "empty edited config")
  /\ store.editedConfig = Null
  /\ store.configs # <<>>
  /\ Waiting(requests) > 0

\* the submitRelease requests that wait for an answer
ReleasesWaiting == requests[Request("submitRelease", Null)]

\* the backend answers a submitRelease in this step, with a result or an error
ReleaseAnswered == requests'[Request("submitRelease", Null)] < ReleasesWaiting

\* the fields of the store but releaseSubmitInFlight
OtherFields(state) == [k \in DOMAIN state \ {"releaseSubmitInFlight"} |-> state[k]]

\* C20: releaseSubmitInFlight is true from the call of submitRelease until
\* the backend answers it, and false after every answer to a submitRelease,
\* whatever its status; the pull request status is asked for again only after
\* an answer whose status code is OK; submitRelease changes no other field of
\* the store
C20_InFlightUntilAnswered ==
  /\ [](ReleasesWaiting > 0 => store.releaseSubmitInFlight)
  /\ [][ReleaseAnswered => ~store'.releaseSubmitInFlight]_vars
  /\ [][(/\ ReleaseAnswered
          /\ requests'[Request("getPullRequestStatus", Null)]
               > requests[Request("getPullRequestStatus", Null)])
           => isOK(outcome'.result)]_vars
  /\ [][(ReleaseAnswered \/ outcome'.name = "submitRelease")
           => /\ OtherFields(store') = OtherFields(store)
              /\ pullRequestInfo' = pullRequestInfo]_vars

====
